---- MODULE Spec2Model ----
(***************************************************************************)
(* Inventory and billing system (Streamlit pages over four MongoDB         *)
(* collections): the inventory ledger and the billing engine.              *)
(*                                                                         *)
(* Money is counted in the smallest currency unit (0.01), so the floats of *)
(* the source are integers here.  A document of a collection is a record;  *)
(* `inventory' and `inventory_log' are kept in insertion order (the order  *)
(* find() returns), `bills' is keyed by bill_id.                           *)
(***************************************************************************)
EXTENDS Integers, Sequences, FiniteSets, TLC

\* ------------------------------------------------------------------ bounds
MaxItems == 2      \* items ever added to the inventory
MaxBills == 2      \* bills ever generated
MaxLog   == 4      \* entries the inventory log may hold
MaxQty   == 2      \* largest quantity typed into a quantity input
MaxDelta == 1      \* largest quantity change typed into "Update Item"
MaxPrice == 1      \* largest price typed into a price input
MaxStock == 3      \* largest on-hand quantity an update may produce
MaxDebt  == 1      \* largest negative on-hand quantity an update may produce
MaxOps   == 4      \* operations in one behaviour

\* ------------------------------------------------------- program constants
MinCreateQty  == 1   \* number_input("Quantity", min_value=1)
MinBillQty    == 1   \* number_input("Quantity", 1, max_qty, ...)
MinFinalPrice == 1   \* number_input("Final Sell Price", 0.01, ...), in units of 0.01

NoChange   == "No Change"
Restock    == "Restock"
Correction == "Correction (e.g., damaged goods, recount)"
Reasons    == {NoChange, Restock, Correction}

InitialStock     == "Initial Stock"
PriceRevaluation == "Price Revaluation"
BillDeletionReversal == "Bill Deletion Reversal"

PaymentModes    == {"Cash", "UPI"}
PaymentStatuses == {"Paid", "Unpaid"}
ResetConfirmation == "RESET BILLS"
DeleteConfirmation == "DELETE"

\* The warnings and errors of the pages.
NoNotice     == ""
NameWarning  == "Please enter an item name."
PriceWarning == "Selling price should not be less than purchase price."
NoChangesWarning == "No changes were made."
MismatchError == "Confirmation text did not match."

\* ------------------------------------------------------------------ inputs
\* The names typed into "Add New Item": none, or a name no item has yet.
ItemNames == <<"Pen", "Ink", "Cap", "Nib">>
Names(n)  == {""} \cup (IF n < Len(ItemNames) THEN {ItemNames[n + 1]} ELSE {})
Prices    == 0 .. MaxPrice
Deltas    == (0 - MaxDelta) .. MaxDelta
\* The ways the "Finalize Bill" form is filled in: the checkbox, the customer
\* name, whether the final price is overtyped, the two radio buttons.
BillForms ==
    {[sell_at_cost |-> FALSE, customer |-> "", override |-> FALSE,
      payment_mode |-> "UPI", payment_status |-> "Paid"],
     [sell_at_cost |-> TRUE, customer |-> "Raj", override |-> FALSE,
      payment_mode |-> "Cash", payment_status |-> "Unpaid"],
     [sell_at_cost |-> FALSE, customer |-> "", override |-> TRUE,
      payment_mode |-> "Cash", payment_status |-> "Unpaid"]}
ConfirmationTexts == {ResetConfirmation, "reset"}
DeletionTexts == {DeleteConfirmation, "delete"}

\* The sessions: two logged-in browsers, with the username and role that
\* login_page stored in their session state.
Sessions == {1, 2}
Username(s) == IF s = 1 THEN "admin" ELSE "clerk"
Role(s)     == IF s = 1 THEN "Admin" ELSE "Co-Admin"

\* A field a document does not have (bill.get('last_edited_by', 'N/A')).
Absent == "N/A"
\* bill_id of a log reason that names no bill.
NoBill == 0

VARIABLES
    inventory,      \* inventory_collection: Seq of items, item_id = position
    bills,          \* bills_collection: bill_id -> bill
    inventory_log,  \* inventory_log_collection: Seq of log entries
    bill_count,     \* bill ids handed out so far (generate_unique_id is fresh)
    bill_to_edit,   \* per session: << >> or <<bill>> (st.session_state.bill_to_edit)
    given,          \* history: per item, the quantity typed at "Add Item"
    applied,        \* history: per item, sum of the $inc deltas of "Update Item"
    unlogged,       \* history: per item, those of `applied' that wrote no log entry
    edited,         \* history: the "Update Bill" submissions, in the order written
    incs,           \* history: per item, sum of the $inc deltas written to it
    stale,          \* history: items that got an $inc from a run whose read was out of date
    ops,            \* history: operations begun so far
    trip,           \* history: the bill last generated, and whether it was then
                    \* deleted and generated again, with the quantities then
    notice,         \* the warning or error the last run of a handler showed, if any
    pc,             \* per session: the store access its running handler makes next
    local,          \* per session: the local variables of its running handler
    users,          \* users_collection: Seq of user documents, in insertion order
    user_count,     \* user documents inserted so far (each gets a fresh _id)
    session,        \* per session: st.session_state (login, role, page, passphrase)
    clock,          \* datetime.now(): the position of the present in Moments
    bill_timestamp, \* bill_id -> the timestamp stored in the bill
    log_timestamp,  \* the timestamp of each inventory-log entry, in log order
    report          \* what the Analyze Profit page computed last

\* What the handlers read and write.
state == <<inventory, bills, inventory_log, bill_count, bill_to_edit,
           given, applied, unlogged, edited>>

\* The users and the sessions' login and navigation.
office == <<users, user_count, session>>

\* The clock, the timestamps and the report.
books == <<clock, bill_timestamp, log_timestamp, report>>

vars == <<state, incs, stale, ops, trip, notice, pc, local, office, books>>

\* ----------------------------------------------------------------- helpers
RECURSIVE SumSeq(_)
SumSeq(s) == IF s = << >> THEN 0 ELSE Head(s) + SumSeq(Tail(s))

RECURSIVE SetToSeq(_)
\* The elements of a finite set of integers in increasing order.
SetToSeq(S) ==
    IF S = {} THEN << >>
    ELSE LET m == CHOOSE x \in S : \A y \in S : x <= y
         IN  <<m>> \o SetToSeq(S \ {m})

ItemIds == 1 .. Len(inventory)
BillIds == DOMAIN bills

\* main_app: the pages a role may open.
PageOptions(role) ==
    IF role = "Admin" THEN
        {"Inventory Management", "Billing System", "View Bills", "Analyze Profit",
         "Inventory History", "Daily Report", "IAM", "Log Book", "Settings"}
    ELSE IF role = "Co-Admin" THEN
        {"Inventory Management", "Billing System", "View Bills", "Analyze Profit",
         "Inventory History", "Daily Report", "Settings"}
    ELSE {"Billing System", "View Bills"}

CanOpen(s, page) == page \in PageOptions(Role(s))

\* log_inventory_change: the entry it inserts (log_id and timestamp left out).
LogEntry(item_id, item_name, quantity_change, purchase_cost_change, reason, bill_id) ==
    [item_id |-> item_id, item_name |-> item_name,
     quantity_change |-> quantity_change,
     purchase_cost_change |-> purchase_cost_change,
     reason |-> reason, bill_id |-> bill_id]

\* inventory_collection.update_one({"item_id": id}, {"$inc": {"quantity": d}}):
\* atomic on the stored document; matches nothing when the item does not exist.
IncQuantity(inv, id, d) ==
    IF id \in 1 .. Len(inv) THEN [inv EXCEPT ![id].quantity = @ + d] ELSE inv

\* ------------------------------------------------- Inventory Management page
\* Mutant: only the name is checked.
ValidNewItemOfAnyPrice(item_name, purchase_price, selling_price) ==
    item_name # ""

\* "Add New Item": the checks of the form (lines 114-117).
ValidNewItem(item_name, purchase_price, selling_price) ==
    item_name # "" /\ ~(selling_price < purchase_price)

\* Mutant: the two prices are stored the other way round.
NewItemPricesSwapped(item_id, item_name, purchase_price, selling_price, quantity) ==
    [item_id |-> item_id, item_name |-> item_name,
     purchase_price |-> selling_price, selling_price |-> purchase_price,
     quantity |-> quantity]

\* The item document "Add New Item" inserts.
NewItem(item_id, item_name, purchase_price, selling_price, quantity) ==
    [item_id |-> item_id, item_name |-> item_name,
     purchase_price |-> purchase_price, selling_price |-> selling_price,
     quantity |-> quantity]

\* "Update Existing Item": item_options maps a name to an item_id, so of two
\* items of one name only the later one can be selected.
UpdateOptions(inv) ==
    {i \in 1 .. Len(inv) :
        \A j \in 1 .. Len(inv) : j > i => inv[j].item_name # inv[i].item_name}

\* Lines 158-161: the Price Revaluation entry, if any.
RevaluationEntries(item_details, new_purchase_price) ==
    IF new_purchase_price # item_details.purchase_price
    THEN LET revaluation_cost_change ==
                 (new_purchase_price - item_details.purchase_price)
                     * item_details.quantity
         IN  IF revaluation_cost_change # 0
             THEN <<LogEntry(item_details.item_id, item_details.item_name, 0,
                             revaluation_cost_change, PriceRevaluation, NoBill)>>
             ELSE << >>
    ELSE << >>

\* Mutant: a Restock is costed whatever the sign of its quantity.
CostChangeOfAnyRestock(item_details, quantity_change, reason, new_purchase_price) ==
    IF reason = Restock
    THEN new_purchase_price * quantity_change
    ELSE IF reason = Correction
    THEN item_details.purchase_price * quantity_change
    ELSE 0

\* Lines 164-168: the cost attributed to a quantity change.
CostChange(item_details, quantity_change, reason, new_purchase_price) ==
    IF reason = Restock /\ quantity_change > 0
    THEN new_purchase_price * quantity_change
    ELSE IF reason = Correction
    THEN item_details.purchase_price * quantity_change
    ELSE 0

\* Mutant: the entry records the new quantity, not the change.
QuantityEntriesLogsTotal(item_details, quantity_change, reason, new_purchase_price) ==
    IF quantity_change # 0 /\ reason # NoChange
    THEN LET cost_change ==
                 CostChange(item_details, quantity_change, reason, new_purchase_price)
         IN  IF cost_change # 0
             THEN <<LogEntry(item_details.item_id, item_details.item_name,
                             item_details.quantity + quantity_change, cost_change,
                             reason, NoBill)>>
             ELSE << >>
    ELSE << >>

\* Lines 163-170: the log entry of a quantity change, if any.
QuantityEntries(item_details, quantity_change, reason, new_purchase_price) ==
    IF quantity_change # 0 /\ reason # NoChange
    THEN LET cost_change ==
                 CostChange(item_details, quantity_change, reason, new_purchase_price)
         IN  IF cost_change # 0
             THEN <<LogEntry(item_details.item_id, item_details.item_name,
                             quantity_change, cost_change, reason, NoBill)>>
             ELSE << >>
    ELSE << >>

\* Mutant: the reason is not looked at.
HasIncForAnyReason(quantity_change, reason) == quantity_change # 0

\* Line 177: whether the update carries an $inc of the quantity.
HasInc(quantity_change, reason) == quantity_change # 0 /\ reason # NoChange

\* Mutant: the quantity is written as the quantity read plus the change.
UpdateWriteReadModifyWrite(inv, item_details, quantity_change, reason, new_purchase_price, new_selling_price) ==
    LET id == item_details.item_id
        doc == inv[id]
        pp == IF new_purchase_price # item_details.purchase_price
              THEN new_purchase_price ELSE doc.purchase_price
        sp == IF new_selling_price # item_details.selling_price
              THEN new_selling_price ELSE doc.selling_price
        qty == IF HasInc(quantity_change, reason)
               THEN item_details.quantity + quantity_change ELSE doc.quantity
    IN  [inv EXCEPT ![id] = [doc EXCEPT !.purchase_price = pp,
                                        !.selling_price = sp,
                                        !.quantity = qty]]

\* Lines 172-180: the update_one built from the form and the item as it was
\* read for the form; $set and $inc act on the stored document.
UpdateWrite(inv, item_details, quantity_change, reason, new_purchase_price, new_selling_price) ==
    LET id == item_details.item_id
        doc == inv[id]
        pp == IF new_purchase_price # item_details.purchase_price
              THEN new_purchase_price ELSE doc.purchase_price
        sp == IF new_selling_price # item_details.selling_price
              THEN new_selling_price ELSE doc.selling_price
        qty == IF HasInc(quantity_change, reason)
               THEN doc.quantity + quantity_change ELSE doc.quantity
    IN  [inv EXCEPT ![id] = [doc EXCEPT !.purchase_price = pp,
                                        !.selling_price = sp,
                                        !.quantity = qty]]

\* ------------------------------------------------------ Billing System page
\* Mutant: what the edited bill holds is counted twice.
ShownQtyHeldTwice(inv, edit, i) ==
    inv[i].quantity
        + 2 * (IF edit = << >> THEN 0
               ELSE SumSeq([k \in 1 .. Len(edit[1].items) |->
                               IF edit[1].items[k].item_id = i
                               THEN edit[1].items[k].quantity ELSE 0]))

\* Lines 202-210: the quantity of item i as the page shows it: on hand, plus
\* what the bill being edited holds of it.
Held(edit, i) ==
    IF edit = << >> THEN 0
    ELSE SumSeq([k \in 1 .. Len(edit[1].items) |->
                    IF edit[1].items[k].item_id = i
                    THEN edit[1].items[k].quantity ELSE 0])

ShownQty(inv, edit, i) == inv[i].quantity + Held(edit, i)

\* Line 212.
AvailableItems(inv, edit) == {i \in 1 .. Len(inv) : ShownQty(inv, edit, i) > 0}

\* Line 217: item_options is keyed by "name (Stock: n)"; a later item of the
\* same label replaces an earlier one.
ItemOptions(inv, edit) ==
    {i \in AvailableItems(inv, edit) :
        \A j \in AvailableItems(inv, edit) :
            j > i => ~(/\ inv[j].item_name = inv[i].item_name
                       /\ ShownQty(inv, edit, j) = ShownQty(inv, edit, i))}

\* Lines 248-251: bill_items_with_qty, in the order of selection.
BillItemsWithQty(inv, order, qty) ==
    [k \in 1 .. Len(order) |->
        [item_id |-> order[k], item_name |-> inv[order[k]].item_name,
         quantity |-> qty[order[k]],
         selling_price |-> inv[order[k]].selling_price,
         purchase_price |-> inv[order[k]].purchase_price]]

\* Line 284: the lines as persisted, purchase_price stripped.
FinalBillItems(with_qty) ==
    [k \in 1 .. Len(with_qty) |->
        [item_id |-> with_qty[k].item_id, item_name |-> with_qty[k].item_name,
         quantity |-> with_qty[k].quantity,
         selling_price |-> with_qty[k].selling_price]]

\* Lines 252, 256.
SuggestedSellPrice(with_qty) ==
    SumSeq([k \in 1 .. Len(with_qty) |->
               with_qty[k].quantity * with_qty[k].selling_price])

\* Mutant: the cost is taken at the selling price.
TotalCostAtSellingPrice(with_qty) ==
    SumSeq([k \in 1 .. Len(with_qty) |->
               with_qty[k].quantity * with_qty[k].selling_price])

\* Lines 253, 282.
TotalPurchaseCost(with_qty) ==
    SumSeq([k \in 1 .. Len(with_qty) |->
               with_qty[k].quantity * with_qty[k].purchase_price])

\* Line 283.
Profit(total_sell_price, total_purchase_cost) ==
    total_sell_price - total_purchase_cost

\* Line 265.
FinalPriceValue(with_qty, sell_at_cost) ==
    IF sell_at_cost THEN TotalPurchaseCost(with_qty) ELSE SuggestedSellPrice(with_qty)

\* The quantity the lines `items' hold of item i.
LineQty(items, i) ==
    SumSeq([k \in 1 .. Len(items) |->
               IF items[k].item_id = i THEN items[k].quantity ELSE 0])

\* Lines 288-290: inventory_deltas of an edit, original lines minus new lines.
InventoryDeltas(original_items, final_items, i) ==
    LineQty(original_items, i) - LineQty(final_items, i)

\* Mutant: only the items of the new lines are adjusted, so an item taken out
\* of the bill is not added back.
EditStockNewLinesOnly(inv, original_items, final_items) ==
    [i \in 1 .. Len(inv) |->
        IF LineQty(final_items, i) # 0
        THEN [inv[i] EXCEPT !.quantity =
                  @ + LineQty(original_items, i) - LineQty(final_items, i)]
        ELSE inv[i]]

\* Lines 291-292: the $inc of every item whose delta is not 0.
EditStock(inv, original_items, final_items) ==
    [i \in 1 .. Len(inv) |->
        IF InventoryDeltas(original_items, final_items, i) # 0
        THEN [inv[i] EXCEPT !.quantity =
                  @ + InventoryDeltas(original_items, final_items, i)]
        ELSE inv[i]]

\* Mutant: every line gives one unit back to its item, whatever its quantity.
ReleaseStockOneEach(inv, items) ==
    [i \in 1 .. Len(inv) |->
        [inv[i] EXCEPT !.quantity =
            @ + Cardinality({k \in 1 .. Len(items) : items[k].item_id = i})]]

\* Mutant: every line takes one unit off its item, whatever its quantity.
SellStockOneEach(inv, final_items) ==
    [i \in 1 .. Len(inv) |->
        [inv[i] EXCEPT !.quantity =
            @ - Cardinality({k \in 1 .. Len(final_items) : final_items[k].item_id = i})]]

\* Lines 313-314: the $inc of -quantity for every line of a new bill.
SellStock(inv, final_items) ==
    [i \in 1 .. Len(inv) |->
        [inv[i] EXCEPT !.quantity = @ - LineQty(final_items, i)]]

\* Lines 344-345, 464-466: the $inc of +quantity for every line.
ReleaseStock(inv, items) ==
    [i \in 1 .. Len(inv) |->
        [inv[i] EXCEPT !.quantity = @ + LineQty(items, i)]]

\* Lines 306-311: the bill "Generate Bill" inserts.
BillData(bill_id, final_items, total_purchase_cost, total_sell_price, payment_mode, payment_status, customer_name, username) ==
    [bill_id |-> bill_id, items |-> final_items,
     total_purchase_cost |-> total_purchase_cost,
     total_sell_price |-> total_sell_price,
     profit |-> Profit(total_sell_price, total_purchase_cost),
     payment_mode |-> payment_mode, payment_status |-> payment_status,
     customer_name |-> customer_name,
     created_by |-> username, last_edited_by |-> Absent]

\* Mutant: a bill that has been edited before is left as it is.
UpdatedBillUnlessEdited(bill, final_items, total_purchase_cost, total_sell_price, payment_mode, payment_status, customer_name, username) ==
    IF bill.last_edited_by # Absent THEN bill
    ELSE [bill EXCEPT !.items = final_items,
                      !.total_purchase_cost = total_purchase_cost,
                      !.total_sell_price = total_sell_price,
                      !.profit = Profit(total_sell_price, total_purchase_cost),
                      !.payment_mode = payment_mode,
                      !.payment_status = payment_status,
                      !.customer_name = customer_name,
                      !.last_edited_by = username]

\* Lines 294-300: the $set of "Update Bill" on the stored bill.
UpdatedBill(bill, final_items, total_purchase_cost, total_sell_price, payment_mode, payment_status, customer_name, username) ==
    [bill EXCEPT !.items = final_items,
                 !.total_purchase_cost = total_purchase_cost,
                 !.total_sell_price = total_sell_price,
                 !.profit = Profit(total_sell_price, total_purchase_cost),
                 !.payment_mode = payment_mode,
                 !.payment_status = payment_status,
                 !.customer_name = customer_name,
                 !.last_edited_by = username]

\* ---------------------------------------------------------- View Bills page
\* Mutant: the entry is costed at the price the line was sold at.
ReversalEntryAtSalePrice(item_details, bill_id, line) ==
    LogEntry(line.item_id, line.item_name, line.quantity,
             line.selling_price * line.quantity, BillDeletionReversal, bill_id)

\* Lines 346-347: the Bill Deletion Reversal entry of a line, costed at the
\* purchase price of the item as find_one returns it after the $inc.
ReversalEntry(item_details, bill_id, line) ==
    LogEntry(line.item_id, line.item_name, line.quantity,
             item_details.purchase_price * line.quantity, BillDeletionReversal, bill_id)

\* Lines 344-347: the entries of all the lines of a bill.
ReversalEntries(inv, bill) ==
    [k \in 1 .. Len(bill.items) |->
        ReversalEntry(inv[bill.items[k].item_id], bill.bill_id, bill.items[k])]

\* ------------------------------------------------------------ Settings page
\* Mutant: only the first bill read is added back.
ReleaseFirstBillOnly(inv, all_bills, ids) ==
    IF ids = {} THEN inv
    ELSE LET b == CHOOSE x \in ids : \A y \in ids : x <= y
         IN  ReleaseStock(inv, all_bills[b].items)

RECURSIVE ReleaseAllUnpaid(_, _, _)
\* Mutant: only the bills still unpaid are added back.
ReleaseAllUnpaid(inv, all_bills, ids) ==
    IF ids = {} THEN inv
    ELSE LET b == CHOOSE x \in ids : \A y \in ids : x <= y
         IN  ReleaseAllUnpaid(IF all_bills[b].payment_status = "Unpaid"
                              THEN ReleaseStock(inv, all_bills[b].items)
                              ELSE inv,
                              all_bills, ids \ {b})

RECURSIVE ReleaseAll(_, _, _)
\* Lines 464-466: every line of every bill read is added back.
ReleaseAll(inv, all_bills, ids) ==
    IF ids = {} THEN inv
    ELSE LET b == CHOOSE x \in ids : \A y \in ids : x <= y
         IN  ReleaseAll(ReleaseStock(inv, all_bills[b].items), all_bills, ids \ {b})

\* ------------------------------------------------- users, login, navigation
MaxUsers == 3   \* user documents inserted in one behaviour
MaxDeskOps == 4   \* logins, logouts and IAM submissions in one behaviour

\* check_password_strength: the least length of a password.
MinPasswordLength == 6
\* check_password: CORRECT_PASSWORD.
Passphrase == "admin"
\* initial_setup: the username and the password of the account it inserts.
DefaultAdmin == "admin"
DefaultPassword == "admin"

RoleOptions == {"Admin", "Co-Admin", "Biller"}
\* The pages main_app guards with check_password.
ProtectedPages == {"Analyze Profit", "Inventory History", "Log Book"}
\* What a run shows in place of a page.
LoginPage == "Login"
PasswordPrompt == "Password"
\* A key st.session_state does not hold.
NoKey == "absent"

\* The messages of login_page and iam_page.
LoginError == "Incorrect username or password"
FieldsRequired == "All fields are required."
UsernameExists == "Username already exists."
NewUsernameExists == "New username already exists."
WeakPassword == "Password must be at least 6 characters long."
EmptyPassword == "Password cannot be empty."
PasswordsDiffer == "Passwords do not match."

\* What is typed into the forms.
UsernameInputs == {"", "admin", "bob", "carol"}
FullNameInputs == {"", "Bob"}
EmailInputs == {"", "bob@example.com"}
PasswordInputs == {"", "admin", "secret"}
PassphraseInputs == {Passphrase, "guess"}

\* hash_password: the SHA-256 digest, which differs for different passwords.
HashPassword(password) == <<"sha256", password>>

CheckPasswordStrength(password) == Len(password) >= MinPasswordLength

\* A user document (status and last_seen left out); id stands for _id.
UserDoc(id, username, name, email, password, role) ==
    [id |-> id, username |-> username, name |-> name, email |-> email,
     password |-> HashPassword(password), role |-> role]

\* initial_setup: an empty user store gets the default administrator.
InitialSetup(all_users, count) ==
    IF all_users = << >>
    THEN <<UserDoc(count + 1, DefaultAdmin, "Default Admin", "admin@example.com",
                   DefaultPassword, "Admin")>>
    ELSE all_users

\* The ids handed out once initial_setup has run.
CountAfterSetup(all_users, count) == IF all_users = << >> THEN count + 1 ELSE count

\* users_collection.find_one({"username": username}): the positions that
\* match; the store returns the first.
Matches(all_users, username) ==
    {k \in 1 .. Len(all_users) : all_users[k].username = username}

FindOne(all_users, username) ==
    CHOOSE k \in Matches(all_users, username) :
        \A j \in Matches(all_users, username) : k <= j

\* The sequence without its element k.
Without(seq, k) == [j \in 1 .. Len(seq) - 1 |-> IF j < k THEN seq[j] ELSE seq[j + 1]]

\* main_app: the first of the role's page_options.
FirstPage(role) ==
    IF role \in {"Admin", "Co-Admin"} THEN "Inventory Management" ELSE "Billing System"

\* Mutant: the page the session holds is kept as it is.
CurrentPageAsRemembered(role, page) == page

\* main_app, lines 645-646: the page of the run, given the one the session holds.
CurrentPage(role, page) ==
    IF page = NoKey \/ page \notin PageOptions(role) THEN FirstPage(role) ELSE page

\* A session state without keys: nobody is logged in.
LoggedOut ==
    [logged_in |-> FALSE, username |-> NoKey, role |-> NoKey, page |-> NoKey,
     password_correct |-> NoKey]

\* login_page, then the run of main_app that st.rerun starts.
LoggedIn(user) ==
    [logged_in |-> TRUE, username |-> user.username, role |-> user.role,
     page |-> CurrentPage(user.role, NoKey), password_correct |-> NoKey]

\* What the run of a session in this state shows (lines 656-673): the login
\* page, the page, or in place of a guarded page the prompt of check_password.
Render(sess) ==
    IF ~sess.logged_in THEN LoginPage
    ELSE IF sess.page \in ProtectedPages /\ sess.password_correct # "True"
    THEN PasswordPrompt
    ELSE sess.page

\* ------------------------------------------------- timestamps, the reports
MaxReportOps == 3   \* operations begun in one behaviour of the reports

\* get_business_date: the hour at which the business day begins.
DayStartHour == 6

\* A datetime: the date as a day number, the hour and the minute.
Timestamp(date, hour, minute) == [date |-> date, hour |-> hour, minute |-> minute]

\* The moments at which datetime.now() is read, in the order of time: late on
\* day 1, then 05:30, 05:59, 06:00 and 06:01 on day 2.
Moments ==
    <<Timestamp(1, 23, 0), Timestamp(2, 5, 30), Timestamp(2, 5, 59),
      Timestamp(2, 6, 0), Timestamp(2, 6, 1)>>

\* phase1.py, lines 449 and 463: pd.to_datetime(timestamp).dt.date, the
\* calendar date of a timestamp.
GetCalendarDate(timestamp) == timestamp.date

\* get_business_date (lines 58-62).
GetBusinessDate(timestamp) ==
    IF timestamp.hour < DayStartHour THEN timestamp.date - 1 ELSE timestamp.date

\* df[df['payment_status'] == status]: the bills of a payment status.
BillsOfStatus(all_bills, status) ==
    {b \in DOMAIN all_bills : all_bills[b].payment_status = status}

\* Mutant: the paid bills are all the bills.
PaidBillsAreAll(all_bills) == DOMAIN all_bills

\* Line 381: paid_bills_df.
PaidBills(all_bills) == BillsOfStatus(all_bills, "Paid")

\* Line 382: unpaid_bills_df.
UnpaidBills(all_bills) == BillsOfStatus(all_bills, "Unpaid")

\* df[column].sum() over the bills `ids'.
SumColumn(all_bills, ids, column) ==
    SumSeq([k \in 1 .. Len(SetToSeq(ids)) |-> all_bills[SetToSeq(ids)[k]][column]])

\* paid_bills_df.groupby('business_date')[column].sum(): one row for each
\* business date that has a paid bill.
GroupBills(all_bills, stamps, ids, column) ==
    [d \in {GetBusinessDate(stamps[b]) : b \in ids} |->
        SumColumn(all_bills, {b \in ids : GetBusinessDate(stamps[b]) = d}, column)]

\* log_df.groupby('business_date')['purchase_cost_change'].sum() (lines 400-403).
GroupLog(log, log_stamps) ==
    [d \in {GetBusinessDate(log_stamps[k]) : k \in 1 .. Len(log)} |->
        SumSeq([k \in 1 .. Len(log) |->
                   IF GetBusinessDate(log_stamps[k]) = d
                   THEN log[k].purchase_cost_change ELSE 0])]

\* What the Analyze Profit page has not computed.
NoReport ==
    [available |-> FALSE, total_outstanding |-> 0, daily_profit |-> << >>,
     daily_sales |-> << >>, daily_purchases |-> << >>]

\* analyze_profit_page (lines 369-403): the outstanding revenue, the realized
\* profit and the paid sales of each business day, the purchases of each.
AnalyzeProfit(all_bills, stamps, log, log_stamps) ==
    IF DOMAIN all_bills = {} /\ log = << >> THEN NoReport
    ELSE [available |-> TRUE,
          total_outstanding |->
              SumColumn(all_bills, UnpaidBills(all_bills), "total_sell_price"),
          daily_profit |->
              GroupBills(all_bills, stamps, PaidBills(all_bills), "profit"),
          daily_sales |->
              GroupBills(all_bills, stamps, PaidBills(all_bills), "total_sell_price"),
          daily_purchases |-> GroupLog(log, log_stamps)]

\* phase1.py, lines 449-450 and 458: paid_bills_df.groupby('date')[column].sum(),
\* one row for each calendar date that has a paid bill.
GroupBillsByDate(all_bills, stamps, ids, column) ==
    [d \in {GetCalendarDate(stamps[b]) : b \in ids} |->
        SumColumn(all_bills, {b \in ids : GetCalendarDate(stamps[b]) = d}, column)]

\* phase1.py, lines 463-464: log_df.groupby('date')['purchase_cost_change'].sum().
GroupLogByDate(log, log_stamps) ==
    [d \in {GetCalendarDate(log_stamps[k]) : k \in 1 .. Len(log)} |->
        SumSeq([k \in 1 .. Len(log) |->
                   IF GetCalendarDate(log_stamps[k]) = d
                   THEN log[k].purchase_cost_change ELSE 0])]

\* The Analyze Profit page of phase1.py (lines 426-464): the same report, its
\* rows keyed by the calendar date.
AnalyzeProfitPhase1(all_bills, stamps, log, log_stamps) ==
    IF DOMAIN all_bills = {} /\ log = << >> THEN NoReport
    ELSE [available |-> TRUE,
          total_outstanding |->
              SumColumn(all_bills, UnpaidBills(all_bills), "total_sell_price"),
          daily_profit |->
              GroupBillsByDate(all_bills, stamps, PaidBills(all_bills), "profit"),
          daily_sales |->
              GroupBillsByDate(all_bills, stamps, PaidBills(all_bills), "total_sell_price"),
          daily_purchases |-> GroupLogByDate(log, log_stamps)]

\* The user store and the sessions of a shop in business: the default
\* administrator and a clerk are the users, and each is logged in.
StaffedUsers ==
    <<UserDoc(1, DefaultAdmin, "Default Admin", "admin@example.com", DefaultPassword, "Admin"),
      UserDoc(2, "clerk", "Clerk", "clerk@example.com", "secret", "Co-Admin")>>

StaffedOffice ==
    /\ users = StaffedUsers
    /\ user_count = Len(StaffedUsers)
    /\ session = [s \in Sessions |-> LoggedIn(StaffedUsers[s])]

\* ------------------------------------------------------------------ state
\* No bill generated by the last operations.
NoTrip == [stage |-> "none", bill_id |-> NoBill, items |-> << >>,
           before |-> << >>, open |-> << >>]

\* The local variables of a handler that is not running.
NoLocal ==
    [item_details |-> << >>, inventory_items |-> << >>, form |-> << >>,
     bill |-> << >>, todo |-> << >>, k |-> 0]

Init ==
    /\ inventory = << >>
    /\ bills = << >>
    /\ inventory_log = << >>
    /\ bill_count = 0
    /\ bill_to_edit = [s \in Sessions |-> << >>]
    /\ given = << >>
    /\ applied = << >>
    /\ unlogged = << >>
    /\ edited = << >>
    /\ incs = << >>
    /\ stale = {}
    /\ ops = 0
    /\ trip = NoTrip
    /\ notice = NoNotice
    /\ pc = [s \in Sessions |-> "idle"]
    /\ local = [s \in Sessions |-> NoLocal]
    /\ StaffedOffice
    /\ clock = 1
    /\ bill_timestamp = << >>
    /\ log_timestamp = << >>
    /\ report = NoReport

\* The model's caps on what the collections may grow to.
WithinBounds(inv, log) ==
    /\ Len(log) <= MaxLog
    /\ \A i \in 1 .. Len(inv) :
           inv[i].quantity <= MaxStock /\ inv[i].quantity >= 0 - MaxDebt

\* -------------------------------------------------------------- the handlers
\* "Add Item to Inventory" (lines 113-126).
CreateItem(s, item_name, purchase_price, selling_price, quantity) ==
    /\ CanOpen(s, "Inventory Management")
    /\ Len(inventory) < MaxItems
    /\ IF ValidNewItem(item_name, purchase_price, selling_price)
       THEN LET item_id == Len(inventory) + 1
            IN  /\ inventory' = Append(inventory,
                       NewItem(item_id, item_name, purchase_price, selling_price, quantity))
                /\ inventory_log' = Append(inventory_log,
                       LogEntry(item_id, item_name, quantity,
                                purchase_price * quantity, InitialStock, NoBill))
                /\ given' = Append(given, quantity)
                /\ applied' = Append(applied, 0)
                /\ unlogged' = Append(unlogged, 0)
                /\ WithinBounds(inventory', inventory_log')
                /\ UNCHANGED <<bills, bill_count, bill_to_edit, edited>>
       ELSE UNCHANGED state
    /\ notice' = IF item_name = "" THEN NameWarning
                 ELSE IF selling_price < purchase_price THEN PriceWarning
                 ELSE NoNotice

\* "Update Item" (lines 157-184), on the item as the form read it (line 139).
UpdateItem(s, item_id, quantity_change, reason, new_purchase_price, new_selling_price) ==
    /\ CanOpen(s, "Inventory Management")
    /\ item_id \in UpdateOptions(inventory)
    /\ LET item_details == inventory[item_id]
           entries == RevaluationEntries(item_details, new_purchase_price)
                      \o QuantityEntries(item_details, quantity_change, reason,
                                         new_purchase_price)
           inc == IF HasInc(quantity_change, reason) THEN quantity_change ELSE 0
       IN  /\ inventory_log' = inventory_log \o entries
           /\ inventory' = UpdateWrite(inventory, item_details, quantity_change,
                                       reason, new_purchase_price, new_selling_price)
           /\ applied' = [applied EXCEPT ![item_id] = @ + inc]
           /\ unlogged' = [unlogged EXCEPT ![item_id] = @ +
                  IF QuantityEntries(item_details, quantity_change, reason,
                                     new_purchase_price) = << >>
                  THEN inc ELSE 0]
           /\ WithinBounds(inventory', inventory_log')
    /\ UNCHANGED <<bills, bill_count, bill_to_edit, given, edited>>
    /\ notice' = IF \/ new_purchase_price # inventory[item_id].purchase_price
                    \/ new_selling_price # inventory[item_id].selling_price
                    \/ HasInc(quantity_change, reason)
                 THEN NoNotice ELSE NoChangesWarning

\* "Generate Bill" / "Update Bill" (lines 278-316): the run of the page in which
\* the form is submitted reads the inventory, offers the items and quantities,
\* and writes the bill.
SubmitBill(s, selected, qty, sell_at_cost, customer, override, payment_mode, payment_status) ==
    /\ CanOpen(s, "Billing System")
    /\ selected # {}
    /\ selected \subseteq ItemOptions(inventory, bill_to_edit[s])
    /\ \A i \in selected :
           qty[i] >= MinBillQty /\ qty[i] <= ShownQty(inventory, bill_to_edit[s], i)
    /\ LET with_qty == BillItemsWithQty(inventory, SetToSeq(selected), qty)
           final_bill_items == FinalBillItems(with_qty)
           total_purchase_cost == TotalPurchaseCost(with_qty)
           final_price_value == FinalPriceValue(with_qty, sell_at_cost)
           total_sell_price == IF override THEN MinFinalPrice ELSE final_price_value
           customer_name == IF sell_at_cost THEN customer ELSE ""
       IN  /\ final_price_value >= MinFinalPrice
           /\ IF bill_to_edit[s] # << >>
              THEN LET original_bill == bill_to_edit[s][1]
                   IN  /\ inventory' = EditStock(inventory, original_bill.items,
                                                 final_bill_items)
                       /\ bills' = IF original_bill.bill_id \in DOMAIN bills
                                   THEN [bills EXCEPT ![original_bill.bill_id] =
                                            UpdatedBill(@, final_bill_items,
                                                total_purchase_cost, total_sell_price,
                                                payment_mode, payment_status,
                                                customer_name, Username(s))]
                                   ELSE bills
                       /\ bill_to_edit' = [bill_to_edit EXCEPT ![s] = << >>]
                       /\ edited' = Append(edited,
                              [by |-> Username(s), original |-> original_bill,
                               items |-> final_bill_items])
                       /\ UNCHANGED bill_count
              ELSE /\ bill_count < MaxBills
                   /\ bill_count' = bill_count + 1
                   /\ bills' = (bill_count + 1 :> BillData(bill_count + 1,
                                    final_bill_items, total_purchase_cost,
                                    total_sell_price, payment_mode, payment_status,
                                    customer_name, Username(s))) @@ bills
                   /\ inventory' = SellStock(inventory, final_bill_items)
                   /\ UNCHANGED <<bill_to_edit, edited>>
    /\ UNCHANGED <<inventory_log, given, applied, unlogged>>
    /\ notice' = NoNotice

\* "Edit" (lines 338-341): the bill as the page read it goes to the session.
ClickEdit(s, bill_id) ==
    /\ CanOpen(s, "View Bills")
    /\ bill_id \in DOMAIN bills
    /\ bill_to_edit' = [bill_to_edit EXCEPT ![s] = <<bills[bill_id]>>]
    /\ UNCHANGED <<inventory, bills, inventory_log, bill_count, given, applied, unlogged, edited>>
    /\ notice' = NoNotice

\* "Delete" (lines 343-350).
DeleteBill(s, bill_id) ==
    /\ CanOpen(s, "View Bills")
    /\ bill_id \in DOMAIN bills
    /\ LET bill == bills[bill_id]
       IN  /\ inventory' = ReleaseStock(inventory, bill.items)
           /\ inventory_log' = inventory_log \o ReversalEntries(inventory', bill)
           /\ bills' = [b \in DOMAIN bills \ {bill_id} |-> bills[b]]
    /\ Len(inventory_log') <= MaxLog
    /\ UNCHANGED <<bill_count, bill_to_edit, given, applied, unlogged, edited>>
    /\ notice' = NoNotice

\* "Mark Paid" (lines 352-356).
MarkPaid(s, bill_id) ==
    /\ CanOpen(s, "View Bills")
    /\ bill_id \in DOMAIN bills
    /\ bills[bill_id].payment_status = "Unpaid"
    /\ bills' = [bills EXCEPT ![bill_id].payment_status = "Paid"]
    /\ UNCHANGED <<inventory, inventory_log, bill_count, bill_to_edit, given, applied, unlogged, edited>>
    /\ notice' = NoNotice

\* "Reset All Transactions" (lines 460-473).
ResetAllStock(s, reset_confirmation) ==
    /\ CanOpen(s, "Settings")
    /\ IF reset_confirmation = ResetConfirmation
       THEN /\ inventory' = ReleaseAll(inventory, bills, DOMAIN bills)
            /\ bills' = << >>
            /\ UNCHANGED <<inventory_log, bill_count, bill_to_edit, given, applied, unlogged, edited>>
       ELSE UNCHANGED state
    /\ notice' = IF reset_confirmation = ResetConfirmation THEN NoNotice ELSE MismatchError

\* "Permanently Delete All Data" (lines 478-490): the three collections are
\* dropped; the users stay.
ClearAllData(s, confirmation_text) ==
    /\ CanOpen(s, "Settings")
    /\ IF confirmation_text = DeleteConfirmation
       THEN /\ inventory' = << >>
            /\ bills' = << >>
            /\ inventory_log' = << >>
            /\ given' = << >>
            /\ applied' = << >>
            /\ unlogged' = << >>
            /\ UNCHANGED <<bill_count, bill_to_edit, edited>>
       ELSE UNCHANGED state
    /\ notice' = IF confirmation_text = DeleteConfirmation THEN NoNotice ELSE MismatchError

\* ---------------------------------------------------------- specifications
\* No session has a bill open in the editor.
NoEditOpen == \A s \in Sessions : bill_to_edit[s] = << >>

Quantities(S) == [S -> MinBillQty .. MaxQty]

DoCreateItem ==
    \E s \in Sessions, item_name \in Names(Len(inventory)), purchase_price \in Prices,
       selling_price \in Prices, quantity \in MinCreateQty .. MaxQty :
        CreateItem(s, item_name, purchase_price, selling_price, quantity)

\* The selling price typed is the one shown or the largest price.
DoUpdateItem ==
    \E s \in Sessions, item_id \in ItemIds, quantity_change \in Deltas,
       reason \in Reasons, new_purchase_price \in Prices :
    \E new_selling_price \in {inventory[item_id].selling_price, MaxPrice} :
        UpdateItem(s, item_id, quantity_change, reason, new_purchase_price,
                   new_selling_price)

DoSubmitBill(s) ==
    \E selected \in SUBSET ItemIds : \E qty \in Quantities(selected) :
    \E form \in BillForms :
        SubmitBill(s, selected, qty, form.sell_at_cost, form.customer, form.override,
                   form.payment_mode, form.payment_status)

DoClickEdit == \E s \in Sessions, bill_id \in BillIds : ClickEdit(s, bill_id)

DoDeleteBill == \E s \in Sessions, bill_id \in BillIds : DeleteBill(s, bill_id)

DoMarkPaid == \E s \in Sessions, bill_id \in BillIds : MarkPaid(s, bill_id)

DoResetAllStock ==
    \E s \in Sessions, reset_confirmation \in ConfirmationTexts :
        ResetAllStock(s, reset_confirmation)

DoClearAllData ==
    \E s \in Sessions, confirmation_text \in DeletionTexts :
        ClearAllData(s, confirmation_text)

\* The quantities on hand, item by item.
OnHand(inv) == [i \in 1 .. Len(inv) |-> inv[i].quantity]

\* What `trip' is after a handler run as a whole: a bill generated opens a
\* trip, or closes the one whose bill was deleted when it has the same lines;
\* the deletion of the bill just generated carries the trip on; any other
\* run ends it.
TripAfter ==
    LET created == DOMAIN bills' \ DOMAIN bills
        removed == DOMAIN bills \ DOMAIN bills'
    IN  IF created # {}
        THEN LET b == CHOOSE x \in created : TRUE
             IN  IF trip.stage = "deleted" /\ bills'[b].items = trip.items
                 THEN [trip EXCEPT !.stage = "again", !.bill_id = b]
                 ELSE [stage |-> "open", bill_id |-> b, items |-> bills'[b].items,
                       before |-> OnHand(inventory), open |-> OnHand(inventory')]
        ELSE IF /\ trip.stage = "open"
                /\ removed = {trip.bill_id}
                /\ Len(inventory_log') > Len(inventory_log)
        THEN [trip EXCEPT !.stage = "deleted"]
        ELSE NoTrip

\* A handler run as a whole: what it wrote to the quantities goes to `incs',
\* and there is no handler left running.
Whole ==
    /\ trip' = TripAfter
    /\ incs' = [i \in 1 .. Len(inventory') |->
                   IF i <= Len(inventory)
                   THEN incs[i] + inventory'[i].quantity - inventory[i].quantity
                   ELSE 0]
    /\ UNCHANGED <<stale, pc, local>>

\* The handlers of the stock leave the users, the sessions' navigation, the
\* clock and the report as they are.
Elsewhere == UNCHANGED <<office, books>>

\* One more operation begins.
Tick == ops < MaxOps /\ ops' = ops + 1

OpCreateItem == Tick /\ NoEditOpen /\ DoCreateItem /\ Whole /\ Elsewhere
OpUpdateItem == Tick /\ NoEditOpen /\ DoUpdateItem /\ Whole /\ Elsewhere
OpCreateBill == Tick /\ NoEditOpen /\ (\E s \in Sessions : DoSubmitBill(s)) /\ Whole /\ Elsewhere
OpClickEdit == Tick /\ NoEditOpen /\ DoClickEdit /\ Whole /\ Elsewhere
OpEditBill ==
    /\ \E s \in Sessions : bill_to_edit[s] # << >> /\ DoSubmitBill(s)
    /\ Whole
    /\ UNCHANGED ops
    /\ Elsewhere
OpDeleteBill == Tick /\ NoEditOpen /\ DoDeleteBill /\ Whole /\ Elsewhere
OpMarkPaid == Tick /\ NoEditOpen /\ DoMarkPaid /\ Whole /\ Elsewhere
OpResetAllStock == Tick /\ NoEditOpen /\ DoResetAllStock /\ Whole /\ Elsewhere
OpClearAllData == Tick /\ NoEditOpen /\ DoClearAllData /\ Whole /\ Elsewhere

\* Operations run one at a time: an edit, which begins with "Edit" and ends
\* with "Update Bill", is finished before the next operation begins.
Next ==
    \/ OpCreateItem
    \/ OpUpdateItem
    \/ OpCreateBill
    \/ OpClickEdit
    \/ OpEditBill
    \/ OpDeleteBill
    \/ OpMarkPaid
    \/ OpResetAllStock
    \/ OpClearAllData

Spec == Init /\ [][Next]_vars

\* ------------------------------------------------ the handlers, step by step
\* Every access to a collection is a step of its own; sessions interleave
\* their steps, and a run may stop between any two of them.
MaxRuns     == 2   \* operations begun in one behaviour
MaxNewItems == 1   \* items added to the stocked inventory

\* A shop in business: two items of two units each, and one bill of one
\* unit of each, generated by the admin.
StockedInventory == <<NewItem(1, "Pen", 1, 1, 1), NewItem(2, "Ink", 0, 1, 1)>>

StockedBills ==
    1 :> BillData(1, FinalBillItems(BillItemsWithQty(StockedInventory, <<1, 2>>, <<1, 1>>)),
                  1, 2, "UPI", "Paid", "", Username(1))

StockedLog ==
    <<LogEntry(1, "Pen", 2, 2, InitialStock, NoBill),
      LogEntry(2, "Ink", 2, 0, InitialStock, NoBill)>>

StockedShop ==
    /\ inventory = StockedInventory
    /\ bills = StockedBills
    /\ inventory_log = StockedLog
    /\ bill_count = 1
    /\ bill_to_edit = [s \in Sessions |-> << >>]
    /\ given = <<2, 2>>
    /\ applied = <<0, 0>>
    /\ unlogged = <<0, 0>>
    /\ edited = << >>
    /\ incs = <<0 - 1, 0 - 1>>
    /\ stale = {}
    /\ ops = 0
    /\ trip = NoTrip
    /\ notice = NoNotice
    /\ pc = [s \in Sessions |-> "idle"]
    /\ local = [s \in Sessions |-> NoLocal]

\* The timestamps of the stocked shop: all that it holds was written at the
\* first moment.
StockedBooks ==
    /\ clock = 1
    /\ bill_timestamp = [b \in DOMAIN StockedBills |-> Moments[1]]
    /\ log_timestamp = [k \in 1 .. Len(StockedLog) |-> Moments[1]]
    /\ report = NoReport

InitStocked == StockedShop /\ StaffedOffice /\ StockedBooks

\* Session s goes on to the store access `label' with the locals `loc'; a
\* run that has no store access left is over.
Goto(s, label, loc) ==
    /\ pc' = [pc EXCEPT ![s] = label]
    /\ local' = [local EXCEPT ![s] = IF label = "idle" THEN NoLocal ELSE loc]

Begin == ops < MaxRuns /\ ops' = ops + 1

\* The $inc at the head of the run's list of writes.
WriteInc(s) ==
    LET w == Head(local[s].todo)
    IN  /\ inventory' = IncQuantity(inventory, w[1], w[2])
        /\ incs' = [incs EXCEPT ![w[1]] = @ + w[2]]
        /\ stale' = IF /\ local[s].inventory_items # << >>
                       /\ local[s].inventory_items[w[1]].quantity
                              # inventory[w[1]].quantity
                    THEN stale \cup {w[1]} ELSE stale

\* "Add Item to Inventory": insert_one of the item (line 124).
ItemInsert(s) ==
    /\ pc[s] = "idle"
    /\ Begin
    /\ CanOpen(s, "Inventory Management")
    /\ Len(inventory) < Len(StockedInventory) + MaxNewItems
    /\ \E item_name \in Names(Len(inventory)), purchase_price \in Prices,
          selling_price \in Prices, quantity \in MinCreateQty .. MaxQty :
           /\ ValidNewItem(item_name, purchase_price, selling_price)
           /\ LET item == NewItem(Len(inventory) + 1, item_name, purchase_price,
                                  selling_price, quantity)
              IN  /\ inventory' = Append(inventory, item)
                  /\ given' = Append(given, quantity)
                  /\ Goto(s, "item_log", [NoLocal EXCEPT !.item_details = <<item>>])
    /\ applied' = Append(applied, 0)
    /\ unlogged' = Append(unlogged, 0)
    /\ incs' = Append(incs, 0)
    /\ UNCHANGED <<bills, inventory_log, bill_count, bill_to_edit, edited, stale>>
    /\ notice' = NoNotice
    /\ UNCHANGED trip
    /\ Elsewhere

\* "Add Item to Inventory": the Initial Stock entry (line 125).
ItemLog(s) ==
    /\ pc[s] = "item_log"
    /\ LET item == local[s].item_details[1]
       IN  inventory_log' = Append(inventory_log,
               LogEntry(item.item_id, item.item_name, item.quantity,
                        item.purchase_price * item.quantity, InitialStock, NoBill))
    /\ Goto(s, "idle", NoLocal)
    /\ UNCHANGED <<inventory, bills, bill_count, bill_to_edit, given, applied,
                   unlogged, edited, incs, stale, ops>>
    /\ UNCHANGED notice
    /\ UNCHANGED trip
    /\ Elsewhere

\* Line 181: whether "Update Item" has anything to write to the item.
HasPayload(item_details, form) ==
    \/ form.new_purchase_price # item_details.purchase_price
    \/ form.new_selling_price # item_details.selling_price
    \/ HasInc(form.quantity_change, form.reason)

\* Lines 158-184: the store access "Update Item" makes next, from the n-th on.
UpdateStep(n, item_details, form) ==
    IF n <= 1 /\ RevaluationEntries(item_details, form.new_purchase_price) # << >>
    THEN "update_log_revaluation"
    ELSE IF n <= 2 /\ QuantityEntries(item_details, form.quantity_change,
                                      form.reason, form.new_purchase_price) # << >>
    THEN "update_log_quantity"
    ELSE IF HasPayload(item_details, form) THEN "update_write"
    ELSE "idle"

\* "Update Item": the run of the submission reads the item (line 139).
UpdateRead(s) ==
    /\ pc[s] = "idle"
    /\ Begin
    /\ CanOpen(s, "Inventory Management")
    /\ \E item_id \in UpdateOptions(inventory), quantity_change \in Deltas,
          reason \in Reasons, new_purchase_price \in Prices :
       \E new_selling_price \in {inventory[item_id].selling_price, MaxPrice} :
           LET item_details == inventory[item_id]
               form == [quantity_change |-> quantity_change, reason |-> reason,
                        new_purchase_price |-> new_purchase_price,
                        new_selling_price |-> new_selling_price]
           IN  Goto(s, UpdateStep(1, item_details, form),
                    [NoLocal EXCEPT !.item_details = <<item_details>>,
                                    !.form = <<form>>])
    /\ UNCHANGED <<state, incs, stale>>
    /\ notice' = IF pc'[s] = "idle" THEN NoChangesWarning ELSE NoNotice
    /\ UNCHANGED trip
    /\ Elsewhere

\* "Update Item": the Price Revaluation entry (line 161).
UpdateLogRevaluation(s) ==
    /\ pc[s] = "update_log_revaluation"
    /\ LET item_details == local[s].item_details[1]
           form == local[s].form[1]
       IN  /\ inventory_log' = inventory_log
                  \o RevaluationEntries(item_details, form.new_purchase_price)
           /\ Goto(s, UpdateStep(2, item_details, form), local[s])
    /\ UNCHANGED <<inventory, bills, bill_count, bill_to_edit, given, applied,
                   unlogged, edited, incs, stale, ops>>
    /\ UNCHANGED notice
    /\ UNCHANGED trip
    /\ Elsewhere

\* "Update Item": the entry of the quantity change (line 170).
UpdateLogQuantity(s) ==
    /\ pc[s] = "update_log_quantity"
    /\ LET item_details == local[s].item_details[1]
           form == local[s].form[1]
       IN  /\ inventory_log' = inventory_log
                  \o QuantityEntries(item_details, form.quantity_change,
                                     form.reason, form.new_purchase_price)
           /\ Goto(s, UpdateStep(3, item_details, form), local[s])
    /\ UNCHANGED <<inventory, bills, bill_count, bill_to_edit, given, applied,
                   unlogged, edited, incs, stale, ops>>
    /\ UNCHANGED notice
    /\ UNCHANGED trip
    /\ Elsewhere

\* "Update Item": the update_one of the item (line 180).
UpdateWriteItem(s) ==
    /\ pc[s] = "update_write"
    /\ LET item_details == local[s].item_details[1]
           form == local[s].form[1]
           id == item_details.item_id
           inc == IF HasInc(form.quantity_change, form.reason)
                  THEN form.quantity_change ELSE 0
       IN  /\ inventory' = UpdateWrite(inventory, item_details, form.quantity_change,
                               form.reason, form.new_purchase_price,
                               form.new_selling_price)
           /\ applied' = [applied EXCEPT ![id] = @ + inc]
           /\ unlogged' = [unlogged EXCEPT ![id] = @ +
                  IF QuantityEntries(item_details, form.quantity_change,
                                     form.reason, form.new_purchase_price) = << >>
                  THEN inc ELSE 0]
           /\ incs' = [incs EXCEPT ![id] = @ + inc]
           /\ stale' = IF inc # 0 /\ item_details.quantity # inventory[id].quantity
                       THEN stale \cup {id} ELSE stale
    /\ Goto(s, "idle", NoLocal)
    /\ UNCHANGED <<bills, inventory_log, bill_count, bill_to_edit, given, edited, ops>>
    /\ UNCHANGED notice
    /\ UNCHANGED trip
    /\ Elsewhere

\* Lines 229-276: what the form lets through.
CanSubmit(inv, edit, selected, qty, form) ==
    /\ selected # {}
    /\ selected \subseteq ItemOptions(inv, edit)
    /\ \A i \in selected : qty[i] >= MinBillQty /\ qty[i] <= ShownQty(inv, edit, i)
    /\ FinalPriceValue(BillItemsWithQty(inv, SetToSeq(selected), qty),
                       form.sell_at_cost) >= MinFinalPrice

\* Lines 282-284, 306-311: the bill of the submission, bill_id left open.
Submitted(inv, selected, qty, form, username) ==
    LET with_qty == BillItemsWithQty(inv, SetToSeq(selected), qty)
    IN  BillData(NoBill, FinalBillItems(with_qty), TotalPurchaseCost(with_qty),
                 IF form.override THEN MinFinalPrice
                 ELSE FinalPriceValue(with_qty, form.sell_at_cost),
                 form.payment_mode, form.payment_status,
                 IF form.sell_at_cost THEN form.customer ELSE "", username)

\* Lines 313-314: the $inc of every line of a new bill, in order.
SellTodo(final_items) ==
    [k \in 1 .. Len(final_items) |->
        <<final_items[k].item_id, 0 - final_items[k].quantity>>]

\* Mutant: the deltas of 0 are written too.
EditTodoOfAllItems(original_items, final_items) ==
    LET a == [k \in 1 .. Len(original_items) |-> original_items[k].item_id]
        b == [k \in 1 .. Len(final_items) |-> final_items[k].item_id]
        New(x) == \A k \in 1 .. Len(a) : a[k] # x
        ids == a \o SelectSeq(b, New)
    IN  [k \in 1 .. Len(ids) |->
            <<ids[k], InventoryDeltas(original_items, final_items, ids[k])>>]

\* Lines 288-292: the $inc of an edit, in the order of the dict: the items of
\* the original lines, then those only the new lines have; deltas of 0 left out.
EditTodo(original_items, final_items) ==
    LET a == [k \in 1 .. Len(original_items) |-> original_items[k].item_id]
        b == [k \in 1 .. Len(final_items) |-> final_items[k].item_id]
        New(x) == \A k \in 1 .. Len(a) : a[k] # x
        ids == a \o SelectSeq(b, New)
        all == [k \in 1 .. Len(ids) |->
                   <<ids[k], InventoryDeltas(original_items, final_items, ids[k])>>]
        NonZero(w) == w[2] # 0
    IN  SelectSeq(all, NonZero)

\* "Generate Bill": the run of the submission reads the inventory (line 202).
BillRead(s) ==
    /\ pc[s] = "idle"
    /\ bill_to_edit[s] = << >>
    /\ Begin
    /\ CanOpen(s, "Billing System")
    /\ bill_count < MaxBills
    /\ \E selected \in SUBSET ItemIds : \E qty \in Quantities(selected) :
       \E form \in BillForms :
           /\ CanSubmit(inventory, << >>, selected, qty, form)
           /\ LET bill_data == Submitted(inventory, selected, qty, form, Username(s))
              IN  Goto(s, "bill_insert",
                       [NoLocal EXCEPT !.inventory_items = inventory,
                                       !.bill = <<bill_data>>,
                                       !.todo = SellTodo(bill_data.items)])
    /\ UNCHANGED <<state, incs, stale>>
    /\ notice' = NoNotice
    /\ UNCHANGED trip
    /\ Elsewhere

\* "Generate Bill": insert_one of the bill (line 312).
BillInsert(s) ==
    /\ pc[s] = "bill_insert"
    /\ bill_count' = bill_count + 1
    /\ bills' = (bill_count + 1 :> [local[s].bill[1] EXCEPT !.bill_id = bill_count + 1])
                    @@ bills
    /\ Goto(s, "bill_inc", local[s])
    /\ UNCHANGED <<inventory, inventory_log, bill_to_edit, given, applied, unlogged,
                   edited, incs, stale, ops>>
    /\ UNCHANGED notice
    /\ UNCHANGED trip
    /\ Elsewhere

\* "Generate Bill": the $inc of one line (line 314).
BillInc(s) ==
    /\ pc[s] = "bill_inc"
    /\ WriteInc(s)
    /\ Goto(s, IF Len(local[s].todo) > 1 THEN "bill_inc" ELSE "idle",
            [local[s] EXCEPT !.todo = Tail(@)])
    /\ UNCHANGED <<bills, inventory_log, bill_count, bill_to_edit, given, applied,
                   unlogged, edited, ops>>
    /\ UNCHANGED notice
    /\ UNCHANGED trip
    /\ Elsewhere

\* "Edit" (lines 338-341): one access, the find of the page (line 321).
EditOpen(s) ==
    /\ pc[s] = "idle"
    /\ Begin
    /\ \E bill_id \in BillIds : ClickEdit(s, bill_id)
    /\ UNCHANGED <<incs, stale, pc, local>>
    /\ UNCHANGED trip
    /\ Elsewhere

\* "Update Bill": the run of the submission reads the inventory (line 202).
EditRead(s) ==
    /\ pc[s] = "idle"
    /\ bill_to_edit[s] # << >>
    /\ CanOpen(s, "Billing System")
    /\ \E selected \in SUBSET ItemIds : \E qty \in Quantities(selected) :
       \E form \in BillForms :
           /\ CanSubmit(inventory, bill_to_edit[s], selected, qty, form)
           /\ LET bill_data == Submitted(inventory, selected, qty, form, Username(s))
                  todo == EditTodo(bill_to_edit[s][1].items, bill_data.items)
              IN  Goto(s, IF todo = << >> THEN "edit_set" ELSE "edit_inc",
                       [NoLocal EXCEPT !.inventory_items = inventory,
                                       !.bill = <<bill_data>>,
                                       !.todo = todo])
    /\ UNCHANGED <<state, incs, stale, ops>>
    /\ notice' = NoNotice
    /\ UNCHANGED trip
    /\ Elsewhere

\* "Update Bill": one $inc (line 292).
EditInc(s) ==
    /\ pc[s] = "edit_inc"
    /\ WriteInc(s)
    /\ Goto(s, IF Len(local[s].todo) > 1 THEN "edit_inc" ELSE "edit_set",
            [local[s] EXCEPT !.todo = Tail(@)])
    /\ UNCHANGED <<bills, inventory_log, bill_count, bill_to_edit, given, applied,
                   unlogged, edited, ops>>
    /\ UNCHANGED notice
    /\ UNCHANGED trip
    /\ Elsewhere

\* "Update Bill": update_one of the bill, which matches nothing when the bill
\* is gone, and the end of the edit (lines 300-301).
EditSet(s) ==
    /\ pc[s] = "edit_set"
    /\ LET original_bill == bill_to_edit[s][1]
           bill_data == local[s].bill[1]
       IN  /\ bills' = IF original_bill.bill_id \in DOMAIN bills
                       THEN [bills EXCEPT ![original_bill.bill_id] =
                                UpdatedBill(@, bill_data.items,
                                    bill_data.total_purchase_cost,
                                    bill_data.total_sell_price,
                                    bill_data.payment_mode, bill_data.payment_status,
                                    bill_data.customer_name, Username(s))]
                       ELSE bills
           /\ edited' = Append(edited, [by |-> Username(s), original |-> original_bill,
                                        items |-> bill_data.items])
    /\ bill_to_edit' = [bill_to_edit EXCEPT ![s] = << >>]
    /\ Goto(s, "idle", NoLocal)
    /\ UNCHANGED <<inventory, inventory_log, bill_count, given, applied, unlogged,
                   incs, stale, ops>>
    /\ UNCHANGED notice
    /\ UNCHANGED trip
    /\ Elsewhere

\* "Delete": the find of the page (line 321) gives the bill.
DeleteRead(s) ==
    /\ pc[s] = "idle"
    /\ Begin
    /\ CanOpen(s, "View Bills")
    /\ \E bill_id \in BillIds :
           Goto(s, "delete_inc", [NoLocal EXCEPT !.bill = <<bills[bill_id]>>, !.k = 1])
    /\ UNCHANGED <<state, incs, stale>>
    /\ notice' = NoNotice
    /\ UNCHANGED trip
    /\ Elsewhere

\* "Delete": the $inc of line k (line 345).
DeleteInc(s) ==
    /\ pc[s] = "delete_inc"
    /\ LET line == local[s].bill[1].items[local[s].k]
       IN  /\ inventory' = IncQuantity(inventory, line.item_id, line.quantity)
           /\ incs' = [incs EXCEPT ![line.item_id] = @ + line.quantity]
    /\ Goto(s, "delete_find", local[s])
    /\ UNCHANGED <<bills, inventory_log, bill_count, bill_to_edit, given, applied,
                   unlogged, edited, stale, ops>>
    /\ UNCHANGED notice
    /\ UNCHANGED trip
    /\ Elsewhere

\* "Delete": find_one of the item of line k (line 346).
DeleteFind(s) ==
    /\ pc[s] = "delete_find"
    /\ LET line == local[s].bill[1].items[local[s].k]
       IN  Goto(s, "delete_log",
                [local[s] EXCEPT !.item_details = <<inventory[line.item_id]>>])
    /\ UNCHANGED <<state, incs, stale, ops>>
    /\ UNCHANGED notice
    /\ UNCHANGED trip
    /\ Elsewhere

\* "Delete": the Bill Deletion Reversal entry of line k (line 347).
DeleteLog(s) ==
    /\ pc[s] = "delete_log"
    /\ LET bill == local[s].bill[1]
           line == bill.items[local[s].k]
       IN  /\ inventory_log' = Append(inventory_log,
                  ReversalEntry(local[s].item_details[1], bill.bill_id, line))
           /\ Goto(s, IF local[s].k < Len(bill.items) THEN "delete_inc"
                      ELSE "delete_remove",
                   [local[s] EXCEPT !.item_details = << >>, !.k = @ + 1])
    /\ UNCHANGED <<inventory, bills, bill_count, bill_to_edit, given, applied,
                   unlogged, edited, incs, stale, ops>>
    /\ UNCHANGED notice
    /\ UNCHANGED trip
    /\ Elsewhere

\* "Delete": delete_one of the bill (line 348).
DeleteRemove(s) ==
    /\ pc[s] = "delete_remove"
    /\ bills' = [b \in DOMAIN bills \ {local[s].bill[1].bill_id} |-> bills[b]]
    /\ Goto(s, "idle", NoLocal)
    /\ UNCHANGED <<inventory, inventory_log, bill_count, bill_to_edit, given, applied,
                   unlogged, edited, incs, stale, ops>>
    /\ UNCHANGED notice
    /\ UNCHANGED trip
    /\ Elsewhere

\* "Mark Paid" (lines 352-356): its $set puts "Paid" whatever the bill holds,
\* and matches nothing when the bill is gone, so it is one step.
Pay(s) ==
    /\ pc[s] = "idle"
    /\ Begin
    /\ \E bill_id \in BillIds : MarkPaid(s, bill_id)
    /\ UNCHANGED <<incs, stale, pc, local>>
    /\ UNCHANGED trip
    /\ Elsewhere

RECURSIVE AllLines(_, _)
\* Lines 464-466: the lines of the bills read, bill after bill.
AllLines(all_bills, ids) ==
    IF ids = {} THEN << >>
    ELSE LET b == CHOOSE x \in ids : \A y \in ids : x <= y
         IN  [k \in 1 .. Len(all_bills[b].items) |->
                 <<all_bills[b].items[k].item_id, all_bills[b].items[k].quantity>>]
             \o AllLines(all_bills, ids \ {b})

\* "Reset All Transactions", confirmed: find of all the bills (line 463).
ResetRead(s) ==
    /\ pc[s] = "idle"
    /\ Begin
    /\ CanOpen(s, "Settings")
    /\ LET todo == AllLines(bills, DOMAIN bills)
       IN  Goto(s, IF todo = << >> THEN "reset_delete" ELSE "reset_inc",
                [NoLocal EXCEPT !.todo = todo])
    /\ UNCHANGED <<state, incs, stale>>
    /\ notice' = NoNotice
    /\ UNCHANGED trip
    /\ Elsewhere

\* "Reset All Transactions": the $inc of one line (line 466).
ResetInc(s) ==
    /\ pc[s] = "reset_inc"
    /\ WriteInc(s)
    /\ Goto(s, IF Len(local[s].todo) > 1 THEN "reset_inc" ELSE "reset_delete",
            [local[s] EXCEPT !.todo = Tail(@)])
    /\ UNCHANGED <<bills, inventory_log, bill_count, bill_to_edit, given, applied,
                   unlogged, edited, ops>>
    /\ UNCHANGED notice
    /\ UNCHANGED trip
    /\ Elsewhere

\* "Reset All Transactions": delete_many({}) (line 467).
ResetDelete(s) ==
    /\ pc[s] = "reset_delete"
    /\ bills' = << >>
    /\ Goto(s, "idle", NoLocal)
    /\ UNCHANGED <<inventory, inventory_log, bill_count, bill_to_edit, given, applied,
                   unlogged, edited, incs, stale, ops>>
    /\ UNCHANGED notice
    /\ UNCHANGED trip
    /\ Elsewhere

\* The run of session s stops before its next store access: the process
\* dies, or the access raises.  The session does nothing more.
Crash(s) ==
    /\ pc[s] \notin {"idle", "stopped"}
    /\ pc' = [pc EXCEPT ![s] = "stopped"]
    /\ local' = [local EXCEPT ![s] = NoLocal]
    /\ UNCHANGED <<state, incs, stale, ops>>
    /\ UNCHANGED notice
    /\ UNCHANGED trip
    /\ Elsewhere

NextSteps ==
    \/ \E s \in Sessions : ItemInsert(s)
    \/ \E s \in Sessions : ItemLog(s)
    \/ \E s \in Sessions : UpdateRead(s)
    \/ \E s \in Sessions : UpdateLogRevaluation(s)
    \/ \E s \in Sessions : UpdateLogQuantity(s)
    \/ \E s \in Sessions : UpdateWriteItem(s)
    \/ \E s \in Sessions : BillRead(s)
    \/ \E s \in Sessions : BillInsert(s)
    \/ \E s \in Sessions : BillInc(s)
    \/ \E s \in Sessions : EditOpen(s)
    \/ \E s \in Sessions : EditRead(s)
    \/ \E s \in Sessions : EditInc(s)
    \/ \E s \in Sessions : EditSet(s)
    \/ \E s \in Sessions : DeleteRead(s)
    \/ \E s \in Sessions : DeleteInc(s)
    \/ \E s \in Sessions : DeleteFind(s)
    \/ \E s \in Sessions : DeleteLog(s)
    \/ \E s \in Sessions : DeleteRemove(s)
    \/ \E s \in Sessions : Pay(s)
    \/ \E s \in Sessions : ResetRead(s)
    \/ \E s \in Sessions : ResetInc(s)
    \/ \E s \in Sessions : ResetDelete(s)
    \/ \E s \in Sessions : Crash(s)

SpecSteps == InitStocked /\ [][NextSteps]_vars

\* ------------------------------------------- login, navigation and the users
\* Each action is one run of the script for one session (lines 669-673):
\* initial_setup, then login_page or main_app with the page it shows.

\* The usernames the "Manage Users" selectbox offers.
UsernamesOf(all_users) == {all_users[k].username : k \in 1 .. Len(all_users)}

\* login_page (lines 608-622), and on success the run that st.rerun starts.
Login(s, username, password) ==
    /\ ~session[s].logged_in
    /\ LET all_users == InitialSetup(users, user_count)
       IN  /\ users' = all_users
           /\ user_count' = CountAfterSetup(users, user_count)
           /\ IF /\ Matches(all_users, username) # {}
                 /\ all_users[FindOne(all_users, username)].password
                        = HashPassword(password)
              THEN /\ session' = [session EXCEPT ![s] =
                                     LoggedIn(all_users[FindOne(all_users, username)])]
                   /\ notice' = NoNotice
              ELSE /\ UNCHANGED session
                   /\ notice' = LoginError
    /\ UNCHANGED bill_to_edit

\* main_app, lines 648 and 656-667: the sidebar radio puts the page picked
\* among the role's page_options into the session, and the run shows it.
Navigate(s, page) ==
    /\ session[s].logged_in
    /\ page \in PageOptions(session[s].role)
    /\ session' = [session EXCEPT ![s].page = page]
    /\ notice' = NoNotice
    /\ UNCHANGED <<users, user_count, bill_to_edit>>

\* check_password, lines 80-86: password_entered, called with what was typed
\* into the prompt.
EnterPassphrase(s, text) ==
    /\ Render(session[s]) = PasswordPrompt
    /\ session' = [session EXCEPT ![s].password_correct =
                      IF text = Passphrase THEN "True" ELSE "False"]
    /\ notice' = NoNotice
    /\ UNCHANGED <<users, user_count, bill_to_edit>>

\* main_app, lines 650-653: "Logout" deletes every key of the session state.
Logout(s) ==
    /\ session[s].logged_in
    /\ session' = [session EXCEPT ![s] = LoggedOut]
    /\ bill_to_edit' = [bill_to_edit EXCEPT ![s] = << >>]
    /\ notice' = NoNotice
    /\ UNCHANGED <<users, user_count>>

\* view_bills_page, lines 337-341: "Edit" stores the bill and the page
\* "Billing System" in the session; the run that st.rerun starts shows it.
EditRedirect(s, bill_id) ==
    /\ Render(session[s]) = "View Bills"
    /\ bill_id \in DOMAIN bills
    /\ bill_to_edit' = [bill_to_edit EXCEPT ![s] = <<bills[bill_id]>>]
    /\ session' = [session EXCEPT ![s].page =
                      CurrentPage(session[s].role, "Billing System")]
    /\ notice' = NoNotice
    /\ UNCHANGED <<users, user_count>>

\* Mutant: no username counts as taken.
UsernameTakenNever(all_users, username) == FALSE

\* users_collection.find_one({"username": username}) finds a document.
UsernameTaken(all_users, username) == Matches(all_users, username) # {}

\* iam_page, "Add User" (lines 505-518).
AddUser(s, new_username, new_name, new_email, new_password, new_role) ==
    /\ Render(session[s]) = "IAM"
    /\ IF new_username = "" \/ new_password = "" \/ new_name = "" \/ new_email = ""
       THEN notice' = FieldsRequired /\ UNCHANGED <<users, user_count>>
       ELSE IF UsernameTaken(users, new_username)
       THEN notice' = UsernameExists /\ UNCHANGED <<users, user_count>>
       ELSE IF ~CheckPasswordStrength(new_password)
       THEN notice' = WeakPassword /\ UNCHANGED <<users, user_count>>
       ELSE /\ user_count < MaxUsers
            /\ users' = Append(users, UserDoc(user_count + 1, new_username, new_name,
                                              new_email, new_password, new_role))
            /\ user_count' = user_count + 1
            /\ notice' = NoNotice
    /\ UNCHANGED <<session, bill_to_edit>>

\* iam_page, "Update User" (lines 531-562): the form is there for a username
\* selected that is not blank; update_one writes the first document that has
\* the username selected.
UpdateUser(s, user_to_update, new_username, new_name, new_email, new_role, new_password) ==
    /\ Render(session[s]) = "IAM"
    /\ user_to_update \in UsernamesOf(users)
    /\ user_to_update # ""
    /\ IF new_password # "" /\ ~CheckPasswordStrength(new_password)
       THEN notice' = WeakPassword /\ UNCHANGED users
       ELSE IF new_username # user_to_update /\ UsernameTaken(users, new_username)
       THEN notice' = NewUsernameExists /\ UNCHANGED users
       ELSE /\ users' = [users EXCEPT ![FindOne(users, user_to_update)] =
                            [@ EXCEPT !.username = new_username,
                                      !.name = new_name,
                                      !.email = new_email,
                                      !.role = new_role,
                                      !.password = IF new_password # ""
                                                   THEN HashPassword(new_password)
                                                   ELSE @]]
            /\ notice' = NoNotice
    /\ UNCHANGED <<user_count, session, bill_to_edit>>

\* iam_page, "Delete User" (lines 531-532, 564-569), offered for a username
\* selected that is not blank, unless it is 'admin'; then the run that st.rerun starts, with initial_setup.
DeleteUser(s, user_to_update) ==
    /\ Render(session[s]) = "IAM"
    /\ user_to_update \in UsernamesOf(users)
    /\ user_to_update # ""
    /\ user_to_update # DefaultAdmin
    /\ LET rest == Without(users, FindOne(users, user_to_update))
       IN  /\ users' = InitialSetup(rest, user_count)
           /\ user_count' = CountAfterSetup(rest, user_count)
    /\ notice' = NoNotice
    /\ UNCHANGED <<session, bill_to_edit>>

\* iam_page, "Update My Password" (lines 571-588): update_one on the username
\* the session holds, which matches nothing when that username is gone.
UpdateMyPassword(s, my_new_password, confirm_password) ==
    /\ Render(session[s]) = "IAM"
    /\ IF my_new_password = ""
       THEN notice' = EmptyPassword /\ UNCHANGED users
       ELSE IF ~CheckPasswordStrength(my_new_password)
       THEN notice' = WeakPassword /\ UNCHANGED users
       ELSE IF my_new_password # confirm_password
       THEN notice' = PasswordsDiffer /\ UNCHANGED users
       ELSE /\ users' = IF UsernameTaken(users, session[s].username)
                        THEN [users EXCEPT ![FindOne(users, session[s].username)].password =
                                 HashPassword(my_new_password)]
                        ELSE users
            /\ notice' = NoNotice
    /\ UNCHANGED <<user_count, session, bill_to_edit>>

\* What the runs of login, navigation and IAM leave as it is: the stock, the
\* bills, the log and the timestamps.
AtTheDesk ==
    UNCHANGED <<inventory, bills, inventory_log, bill_count, given, applied, unlogged,
                edited, incs, stale, trip, pc, local, books>>

\* The browser at the desk: in these runs one session is in use, and the
\* users take turns at it.
DeskSessions == {1}

\* One more login, logout or IAM submission.
DeskTick == ops < MaxDeskOps /\ ops' = ops + 1

DeskLogin ==
    /\ DeskTick
    /\ \E s \in DeskSessions, username \in UsernameInputs, password \in PasswordInputs :
           Login(s, username, password)
    /\ AtTheDesk

DeskNavigate ==
    /\ \E s \in DeskSessions, page \in PageOptions("Admin") : Navigate(s, page)
    /\ AtTheDesk
    /\ UNCHANGED ops

DeskEnterPassphrase ==
    /\ \E s \in DeskSessions, text \in PassphraseInputs : EnterPassphrase(s, text)
    /\ AtTheDesk
    /\ UNCHANGED ops

DeskLogout == DeskTick /\ (\E s \in DeskSessions : Logout(s)) /\ AtTheDesk

DeskEditRedirect ==
    /\ \E s \in DeskSessions, bill_id \in BillIds : EditRedirect(s, bill_id)
    /\ AtTheDesk
    /\ UNCHANGED ops

DeskAddUser ==
    /\ DeskTick
    /\ \E s \in DeskSessions, new_username \in UsernameInputs, new_name \in FullNameInputs,
          new_email \in EmailInputs, new_password \in PasswordInputs,
          new_role \in RoleOptions :
           AddUser(s, new_username, new_name, new_email, new_password, new_role)
    /\ AtTheDesk

DeskUpdateUser ==
    /\ DeskTick
    /\ \E s \in DeskSessions, user_to_update \in UsernamesOf(users) :
       \E new_username \in UsernameInputs, new_role \in RoleOptions,
          new_password \in PasswordInputs :
           LET user_details == users[FindOne(users, user_to_update)]
           IN  UpdateUser(s, user_to_update, new_username, user_details.name,
                          user_details.email, new_role, new_password)
    /\ AtTheDesk

DeskDeleteUser ==
    /\ DeskTick
    /\ \E s \in DeskSessions, user_to_update \in UsernamesOf(users) :
           DeleteUser(s, user_to_update)
    /\ AtTheDesk

DeskUpdateMyPassword ==
    /\ DeskTick
    /\ \E s \in DeskSessions, my_new_password \in PasswordInputs,
          confirm_password \in PasswordInputs :
           UpdateMyPassword(s, my_new_password, confirm_password)
    /\ AtTheDesk

NextDesk ==
    \/ DeskLogin
    \/ DeskNavigate
    \/ DeskEnterPassphrase
    \/ DeskLogout
    \/ DeskEditRedirect
    \/ DeskAddUser
    \/ DeskUpdateUser
    \/ DeskDeleteUser
    \/ DeskUpdateMyPassword

\* The stocked shop when the script has run once: initial_setup has inserted
\* the default administrator, and no session is logged in.
InitDesk ==
    /\ StockedShop
    /\ StockedBooks
    /\ users = InitialSetup(<< >>, 0)
    /\ user_count = CountAfterSetup(<< >>, 0)
    /\ session = [s \in Sessions |-> LoggedOut]

SpecDesk == InitDesk /\ [][NextDesk]_vars

\* -------------------------------------------------------- the profit report
\* The handlers run one at a time, as wholes, while the clock goes on; what
\* they insert or set gets the timestamp datetime.now() of the moment.

\* The timestamps after a run: the bill inserted (line 309) and every log
\* entry inserted (line 54) have the present moment.  "Update Bill", which
\* sets the timestamp of its bill as well (line 297), is not among the runs
\* here.
Stamped ==
    /\ bill_timestamp' =
           [b \in DOMAIN bills' |->
               IF b \in DOMAIN bills THEN bill_timestamp[b] ELSE Moments[clock]]
    /\ log_timestamp' =
           [k \in 1 .. Len(inventory_log') |->
               IF k <= Len(inventory_log) THEN log_timestamp[k] ELSE Moments[clock]]

\* analyze_profit_page (lines 367-403): the run reads the bills and the log
\* and shows the report; it writes nothing.
AnalyzeProfitPage(s) ==
    /\ CanOpen(s, "Analyze Profit")
    /\ report' = AnalyzeProfit(bills, bill_timestamp, inventory_log, log_timestamp)
    /\ notice' = NoNotice
    /\ UNCHANGED state

\* The Analyze Profit page of phase1.py (lines 426-464), the passphrase
\* entered: the run reads the bills and the log and shows the report.
AnalyzeProfitPagePhase1 ==
    /\ report' = AnalyzeProfitPhase1(bills, bill_timestamp, inventory_log, log_timestamp)
    /\ notice' = NoNotice
    /\ UNCHANGED state

\* One more operation begins.
ReportTick == ops < MaxReportOps /\ ops' = ops + 1

\* What the handlers of the stock leave as it is here.
SameDesk == UNCHANGED <<office, clock, report>>

ClockAdvance ==
    /\ clock < Len(Moments)
    /\ clock' = clock + 1
    /\ UNCHANGED <<state, incs, stale, ops, trip, notice, pc, local, office,
                   bill_timestamp, log_timestamp, report>>

StampedCreateBill ==
    /\ ReportTick
    /\ NoEditOpen
    /\ \E s \in Sessions : DoSubmitBill(s)
    /\ Whole
    /\ Stamped
    /\ SameDesk

StampedDeleteBill ==
    ReportTick /\ NoEditOpen /\ DoDeleteBill /\ Whole /\ Stamped /\ SameDesk

StampedMarkPaid ==
    ReportTick /\ NoEditOpen /\ DoMarkPaid /\ Whole /\ Stamped /\ SameDesk

ShowProfit ==
    /\ ReportTick
    /\ NoEditOpen
    /\ \E s \in Sessions : AnalyzeProfitPage(s)
    /\ UNCHANGED <<incs, stale, trip, pc, local, office, clock, bill_timestamp,
                   log_timestamp>>

ShowProfitPhase1 ==
    /\ ReportTick
    /\ NoEditOpen
    /\ AnalyzeProfitPagePhase1
    /\ UNCHANGED <<incs, stale, trip, pc, local, office, clock, bill_timestamp,
                   log_timestamp>>

NextReport ==
    \/ ClockAdvance
    \/ StampedCreateBill
    \/ StampedDeleteBill
    \/ StampedMarkPaid
    \/ ShowProfit
    \/ ShowProfitPhase1

SpecReport == InitStocked /\ [][NextReport]_vars

\* ------------------------------------------------------------ measurements
\* Sum of quantity_change over the log entries of item i that satisfy Keep.
LogQty(log, i, Keep(_)) ==
    SumSeq([k \in 1 .. Len(log) |->
               IF log[k].item_id = i /\ Keep(log[k]) THEN log[k].quantity_change ELSE 0])

AnyEntry(e) == TRUE
NotReversal(e) == e.reason # BillDeletionReversal

\* Sum of the line quantities of item i over the bills stored.
BillQty(all_bills, i) ==
    SumSeq([k \in 1 .. Len(SetToSeq(DOMAIN all_bills)) |->
               LineQty(all_bills[SetToSeq(DOMAIN all_bills)[k]].items, i)])

C8_Stated == \A i \in ItemIds : inventory[i].quantity >= 0

\* The cost of the lines `items' at the purchase prices stored in `inv'.
CostAt(inv, items) ==
    SumSeq([k \in 1 .. Len(items) |->
               items[k].quantity * inv[items[k].item_id].purchase_price])

\* C4: a step that stores a new bill stores exactly one, leaves the other bills
\* alone, costs the new bill's lines at the purchase prices read for it, sets
\* profit = total_sell_price - total_purchase_cost, takes each line's quantity
\* off its item, and appends nothing to the inventory log.
C4_CreateBill ==
    [][DOMAIN bills' \ DOMAIN bills # {} =>
        \E b \in DOMAIN bills' \ DOMAIN bills :
            /\ DOMAIN bills' = DOMAIN bills \cup {b}
            /\ \A x \in DOMAIN bills : bills'[x] = bills[x]
            /\ Len(bills'[b].items) >= 1
            /\ bills'[b].total_purchase_cost = CostAt(inventory, bills'[b].items)
            /\ bills'[b].profit
                   = bills'[b].total_sell_price - bills'[b].total_purchase_cost
            /\ Len(inventory') = Len(inventory)
            /\ \A i \in ItemIds :
                   inventory'[i].quantity
                       = inventory[i].quantity - LineQty(bills'[b].items, i)
            /\ inventory_log' = inventory_log]_vars

\* A bill as generated, of two lines, with a cost and a profit.
C4_Witness ==
    \E b \in BillIds :
        /\ bills[b].last_edited_by = Absent
        /\ Len(bills[b].items) = 2
        /\ bills[b].total_purchase_cost > 0
        /\ bills[b].profit # 0

C7_ResetAllStock ==
    [][(\E s \in Sessions : ResetAllStock(s, ResetConfirmation)) =>
        /\ bills' = << >>
        /\ Len(inventory') = Len(inventory)
        /\ \A i \in ItemIds :
               inventory'[i].quantity = inventory[i].quantity + BillQty(bills, i)
        /\ inventory_log' = inventory_log]_vars

\* Two bills were generated and none is left, and none was deleted one by one.
C7_Witness ==
    /\ bill_count >= 2
    /\ bills = << >>
    /\ \A k \in 1 .. Len(inventory_log) :
           inventory_log[k].reason # BillDeletionReversal

\* No handler is running: every session is between two runs, or has stopped.
AtRest == \A s \in Sessions : pc[s] \in {"idle", "stopped"}

\* C3 as stated: once the only operation begun so far has ended, however it
\* ended, all of its writes are stored or none is: every item has the log
\* entries of its quantity, and the quantity that its insertion, its updates
\* and the stored bills account for.
C3_Stated ==
    (ops <= 1 /\ AtRest) =>
        \A i \in ItemIds :
            /\ inventory[i].quantity
                   = LogQty(inventory_log, i, NotReversal) + unlogged[i]
                         - BillQty(bills, i)
            /\ inventory[i].quantity = given[i] + applied[i] - BillQty(bills, i)

\* C5: "Delete" adds, for the line it is at, the line's quantity to the item
\* and to no other; then appends one Bill Deletion Reversal entry of the bill
\* with quantity_change = the line's quantity and purchase_cost_change = that
\* quantity times the purchase price the item has in the store when the
\* deletion reads it; and removes the bill, and nothing else, once it is
\* past the last line.
C5_DeleteBill ==
    [][\A s \in Sessions :
        /\ (pc[s] = "delete_inc" /\ pc'[s] = "delete_find") =>
               LET line == local[s].bill[1].items[local[s].k]
               IN  /\ Len(inventory') = Len(inventory)
                   /\ \A i \in ItemIds :
                          inventory'[i].quantity = inventory[i].quantity
                              + (IF i = line.item_id THEN line.quantity ELSE 0)
                   /\ inventory_log' = inventory_log
                   /\ bills' = bills
        /\ (pc[s] = "delete_find" /\ pc'[s] = "delete_log") =>
               LET line == local[s].bill[1].items[local[s].k]
               IN  /\ local'[s].item_details = <<inventory[line.item_id]>>
                   /\ UNCHANGED <<inventory, inventory_log, bills>>
        /\ (pc[s] = "delete_log" /\ pc'[s] \in {"delete_inc", "delete_remove"}) =>
               LET bill == local[s].bill[1]
                   line == bill.items[local[s].k]
                   e == inventory_log'[Len(inventory_log')]
               IN  /\ Len(inventory_log') = Len(inventory_log) + 1
                   /\ SubSeq(inventory_log', 1, Len(inventory_log)) = inventory_log
                   /\ e.reason = BillDeletionReversal
                   /\ e.bill_id = bill.bill_id
                   /\ e.item_id = line.item_id
                   /\ e.quantity_change = line.quantity
                   /\ e.purchase_cost_change
                          = local[s].item_details[1].purchase_price * line.quantity
                   /\ local'[s].k = local[s].k + 1
                   /\ (pc'[s] = "delete_remove") = (local[s].k = Len(bill.items))
                   /\ UNCHANGED <<inventory, bills>>
        /\ (pc[s] = "delete_remove" /\ pc'[s] = "idle") =>
               LET bill == local[s].bill[1]
               IN  /\ local[s].k = Len(bill.items) + 1
                   /\ DOMAIN bills' = DOMAIN bills \ {bill.bill_id}
                   /\ \A b \in DOMAIN bills' : bills'[b] = bills[b]
                   /\ UNCHANGED <<inventory, inventory_log>>]_vars

\* The stocked bill was deleted, both of its lines reversed after its first
\* item had been revalued: the entry is costed at another price than the sale.
C5_Witness ==
    /\ \A s \in Sessions : pc[s] = "idle"
    /\ 1 \notin BillIds
    /\ \E j, k \in 1 .. Len(inventory_log) :
           /\ j < k
           /\ inventory_log[j].reason = BillDeletionReversal
           /\ inventory_log[k].reason = BillDeletionReversal
           /\ inventory_log[j].item_id = 1
           /\ inventory_log[k].item_id = 2
           /\ inventory_log[j].purchase_cost_change
                  # StockedInventory[1].purchase_price * inventory_log[j].quantity_change
    /\ inventory[1].quantity = given[1] + applied[1]
    /\ inventory[2].quantity = given[2] + applied[2]

\* C9: in every state of every interleaving, every item's quantity is the
\* quantity it was inserted with plus the sum of all the deltas the sessions
\* have written to it.
C9_NoLostUpdate ==
    \A i \in ItemIds : inventory[i].quantity = given[i] + incs[i]

\* Both sessions are done; one updated the quantity of an item that the other
\* had changed, by a new bill or a deletion, after the update had read it.
C9_Witness ==
    /\ \A s \in Sessions : pc[s] = "idle"
    /\ ops = MaxRuns
    /\ \E i \in stale :
           /\ applied[i] # 0
           /\ incs[i] # applied[i] - LineQty(StockedBills[1].items, i)

\* The submissions of "Update Bill" that had loaded bill b, in the order written.
EditsOf(b) == {k \in 1 .. Len(edited) : edited[k].original.bill_id = b}

\* Nothing but "Edit" and "Update Bill" has run since the shop was stocked.
OnlyEdits ==
    /\ \A s \in Sessions : pc[s] = "idle"
    /\ inventory_log = StockedLog
    /\ Len(inventory) = Len(StockedInventory)
    /\ \A i \in ItemIds : applied[i] = 0
    /\ bill_count = 1
    /\ DOMAIN bills = DOMAIN StockedBills

\* C10: a stored bill that was edited holds the lines and the user of the
\* submission written last, whatever the submissions had loaded; and when only
\* edits have run, every item's quantity is its stocked quantity plus, for
\* each submission, its quantity in the lines that submission had loaded minus
\* its quantity in the lines it wrote.
C10_LaterEditWins ==
    /\ \A b \in BillIds :
           EditsOf(b) # {} =>
               LET last == edited[CHOOSE k \in EditsOf(b) : \A j \in EditsOf(b) : j <= k]
               IN  /\ bills[b].items = last.items
                   /\ bills[b].last_edited_by = last.by
    /\ OnlyEdits =>
           \A i \in ItemIds :
               inventory[i].quantity
                   = StockedInventory[i].quantity
                     + SumSeq([k \in 1 .. Len(edited) |->
                                  LineQty(edited[k].original.items, i)
                                      - LineQty(edited[k].items, i)])

\* Two sessions loaded the same bill and both submitted other lines; the bill
\* holds the lines of the second, and an item's quantity is not what its
\* insertion, its updates and the stored bills account for.
C10_Witness ==
    /\ OnlyEdits
    /\ Len(edited) = 2
    /\ edited[1].original = edited[2].original
    /\ edited[1].by # edited[2].by
    /\ edited[1].items # edited[2].items
    /\ LET b == edited[2].original.bill_id
       IN  /\ b \in BillIds
           /\ bills[b].items = edited[2].items
           /\ bills[b].last_edited_by = edited[2].by
    /\ \E i \in ItemIds :
           inventory[i].quantity # given[i] + applied[i] - BillQty(bills, i)

\* C11 as stated: every step keeps every entry of the inventory log, with its
\* fields, at its place.
C11_Stated ==
    [][/\ Len(inventory_log') >= Len(inventory_log)
       /\ SubSeq(inventory_log', 1, Len(inventory_log)) = inventory_log]_vars

\* The entries a step has appended to the inventory log.
Appended == SubSeq(inventory_log', Len(inventory_log) + 1, Len(inventory_log'))

\* C12 as stated: "Update Item" with reason Correction and a quantity change
\* other than 0 appends an entry of that reason whose quantity_change is the
\* change and whose purchase_cost_change is the change times the purchase
\* price the item had.
C12_Stated ==
    [][\A s \in Sessions, item_id \in ItemIds, quantity_change \in Deltas \ {0},
          new_purchase_price \in Prices, new_selling_price \in Prices :
           UpdateItem(s, item_id, quantity_change, Correction, new_purchase_price,
                      new_selling_price) =>
               /\ Appended # << >>
               /\ LET e == Appended[Len(Appended)]
                  IN  /\ e.item_id = item_id
                      /\ e.reason = Correction
                      /\ e.quantity_change = quantity_change
                      /\ e.purchase_cost_change
                             = inventory[item_id].purchase_price * quantity_change]_vars

\* C13: "Update Item" with reason Restock and a negative quantity change adds
\* the change to the item's quantity, and appends no entry but, when the
\* purchase price is changed with it, the Price Revaluation entry, whose
\* quantity_change is 0.
C13_RestockNegative ==
    [][\A s \in Sessions, item_id \in ItemIds, quantity_change \in Deltas,
          new_purchase_price \in Prices, new_selling_price \in Prices :
           (/\ quantity_change < 0
            /\ UpdateItem(s, item_id, quantity_change, Restock, new_purchase_price,
                          new_selling_price)) =>
               /\ inventory'[item_id].quantity
                      = inventory[item_id].quantity + quantity_change
               /\ Len(inventory_log') >= Len(inventory_log)
               /\ SubSeq(inventory_log', 1, Len(inventory_log)) = inventory_log
               /\ \A k \in 1 .. Len(Appended) :
                      /\ Appended[k].reason = PriceRevaluation
                      /\ Appended[k].quantity_change = 0]_vars

\* The only update of an item bought at a price took a unit off it and left
\* the price: a Correction would have been logged, so it was a Restock.
C13_Witness ==
    /\ ops = 2
    /\ Len(inventory) = 1
    /\ Len(inventory_log) = 1
    /\ inventory_log[1].purchase_cost_change > 0
    /\ inventory[1].purchase_price > 0
    /\ applied[1] < 0
    /\ unlogged[1] = applied[1]
    /\ inventory[1].quantity = given[1] + applied[1]

\* C14 as stated: "Update Item" with a purchase price other than the item's
\* appends exactly one Price Revaluation entry, of quantity_change 0 and of
\* purchase_cost_change = (new price - old price) * the quantity the item had.
C14_Stated ==
    [][\A s \in Sessions, item_id \in ItemIds, quantity_change \in Deltas,
          reason \in Reasons, new_purchase_price \in Prices,
          new_selling_price \in Prices :
           (/\ new_purchase_price # inventory[item_id].purchase_price
            /\ UpdateItem(s, item_id, quantity_change, reason, new_purchase_price,
                          new_selling_price)) =>
               LET R == {k \in 1 .. Len(Appended) :
                            Appended[k].reason = PriceRevaluation}
               IN  /\ Cardinality(R) = 1
                   /\ \A k \in R :
                          /\ Appended[k].item_id = item_id
                          /\ Appended[k].quantity_change = 0
                          /\ Appended[k].purchase_cost_change
                                 = (new_purchase_price
                                        - inventory[item_id].purchase_price)
                                   * inventory[item_id].quantity]_vars

\* Every name that can be typed into "Add New Item".
NameInputs == {""} \cup {ItemNames[k] : k \in 1 .. Len(ItemNames)}

\* C15: "Add Item to Inventory" with a name and a selling price not below the
\* purchase price inserts one item, of an item_id no item has, with the name,
\* prices and quantity typed, and appends one Initial Stock entry of
\* quantity_change = quantity and purchase_cost_change = purchase price *
\* quantity; the items, the log entries and the bills there were stay.
C15_CreateItem ==
    [][\A s \in Sessions, item_name \in NameInputs, purchase_price \in Prices,
          selling_price \in Prices, quantity \in MinCreateQty .. MaxQty :
           (/\ item_name # ""
            /\ selling_price >= purchase_price
            /\ CreateItem(s, item_name, purchase_price, selling_price, quantity)) =>
               /\ Len(inventory') = Len(inventory) + 1
               /\ SubSeq(inventory', 1, Len(inventory)) = inventory
               /\ Len(inventory_log') = Len(inventory_log) + 1
               /\ SubSeq(inventory_log', 1, Len(inventory_log)) = inventory_log
               /\ bills' = bills
               /\ LET new == inventory'[Len(inventory')]
                      e == inventory_log'[Len(inventory_log')]
                  IN  /\ \A i \in ItemIds : inventory[i].item_id # new.item_id
                      /\ new.item_name = item_name
                      /\ new.purchase_price = purchase_price
                      /\ new.selling_price = selling_price
                      /\ new.quantity = quantity
                      /\ e.item_id = new.item_id
                      /\ e.item_name = item_name
                      /\ e.reason = InitialStock
                      /\ e.quantity_change = quantity
                      /\ e.purchase_cost_change = purchase_price * quantity]_vars

\* A second item, bought dearer than free and sold dearer than bought, added
\* while a bill of the first is stored.
C15_Witness ==
    /\ Len(inventory) = 2
    /\ BillIds # {}
    /\ inventory[1].quantity < given[1]
    /\ BillQty(bills, 2) = 0
    /\ inventory[2].quantity = given[2]
    /\ LET e == inventory_log[Len(inventory_log)]
       IN  e.item_id = 2 /\ e.reason = InitialStock /\ e.purchase_cost_change > 0

\* C16: "Add Item to Inventory" with no name, or with a selling price below
\* the purchase price, shows a warning and leaves the inventory, the log and
\* the bills as they were; an item inserted has a name and a selling price
\* not below its purchase price.
C16_RejectedItem ==
    [][/\ \A s \in Sessions, item_name \in NameInputs, purchase_price \in Prices,
             selling_price \in Prices, quantity \in MinCreateQty .. MaxQty :
              (/\ item_name = "" \/ selling_price < purchase_price
               /\ CreateItem(s, item_name, purchase_price, selling_price, quantity)) =>
                  /\ UNCHANGED <<inventory, inventory_log, bills>>
                  /\ notice' \in {NameWarning, PriceWarning}
       /\ Len(inventory') > Len(inventory) =>
              LET new == inventory'[Len(inventory')]
              IN  new.item_name # "" /\ new.selling_price >= new.purchase_price]_vars

\* An item with a selling price below the purchase price was turned down
\* while an item and a bill were stored.
C16_Witness ==
    /\ notice = PriceWarning
    /\ Len(inventory) = 1
    /\ BillIds # {}

\* C17: "Update Item" with the prices shown and a quantity change of 0, or
\* with the prices shown and the reason "No Change", leaves the inventory, the
\* log and the bills as they were; with a quantity change of 0 and another
\* price, it changes the price fields of the item and nothing else in the
\* inventory.
C17_NoOpUpdate ==
    [][\A s \in Sessions, item_id \in ItemIds, quantity_change \in Deltas,
          reason \in Reasons, new_purchase_price \in Prices,
          new_selling_price \in Prices :
           UpdateItem(s, item_id, quantity_change, reason, new_purchase_price,
                      new_selling_price) =>
               LET same == /\ new_purchase_price = inventory[item_id].purchase_price
                           /\ new_selling_price = inventory[item_id].selling_price
               IN  /\ (same /\ (quantity_change = 0 \/ reason = NoChange)) =>
                          UNCHANGED <<inventory, inventory_log, bills>>
                   /\ (~same /\ quantity_change = 0) =>
                          inventory' = [inventory EXCEPT
                              ![item_id].purchase_price = new_purchase_price,
                              ![item_id].selling_price = new_selling_price]]_vars

\* An update that changed nothing was turned down with its warning, the item
\* holding what it was given.
C17_Witness ==
    /\ notice = NoChangesWarning
    /\ Len(inventory) = 1
    /\ Len(inventory_log) = 1
    /\ inventory[1].quantity = given[1]

\* The lines a and b hold the same quantity of every item.
SameLines(a, b) ==
    \A i \in ItemIds : LineQty(a, i) = LineQty(b, i)

\* C18: an "Update Bill" submitted with the quantities the loaded bill holds
\* of every item goes from its read of the inventory straight to the write of
\* the bill, with no $inc to make; and the write of the bill leaves the
\* inventory and the log as they are.
C18_EditSameLines ==
    [][\A s \in Sessions :
        /\ (/\ pc[s] = "idle"
            /\ pc'[s] \in {"edit_inc", "edit_set"}
            /\ SameLines(bill_to_edit[s][1].items, local'[s].bill[1].items)) =>
               /\ pc'[s] = "edit_set"
               /\ local'[s].todo = << >>
               /\ UNCHANGED <<inventory, inventory_log>>
        /\ (pc[s] = "edit_set" /\ pc'[s] = "idle") =>
               UNCHANGED <<inventory, inventory_log>>]_vars

\* A bill was edited to the quantities it held; nothing has been written to
\* the quantities or the log since the shop was stocked.
C18_Witness ==
    /\ \A s \in Sessions : pc[s] = "idle"
    /\ \E k \in 1 .. Len(edited) :
           /\ SameLines(edited[k].original.items, edited[k].items)
           /\ edited[k].original.bill_id \in BillIds
           /\ bills[edited[k].original.bill_id].last_edited_by = edited[k].by
    /\ inventory = StockedInventory
    /\ inventory_log = StockedLog

\* C19: once the bill just generated is deleted, every item has the quantity
\* it had before the bill was generated; once a bill of the same lines is
\* generated next, every item has the quantity it had while the first bill
\* was stored.
C19_RoundTrip ==
    /\ trip.stage = "deleted" => OnHand(inventory) = trip.before
    /\ trip.stage = "again" => OnHand(inventory) = trip.open

\* A bill of two units was generated, deleted and generated again.
C19_Witness ==
    /\ trip.stage = "again"
    /\ trip.bill_id \in BillIds
    /\ bills[trip.bill_id].items = trip.items
    /\ \E k \in 1 .. Len(trip.items) : trip.items[k].quantity > 1
    /\ trip.before # trip.open

\* The bills, each with the payment status st.
WithStatus(all_bills, st) ==
    [b \in DOMAIN all_bills |-> [all_bills[b] EXCEPT !.payment_status = st]]

\* C20: "Mark Paid" sets payment_status of its bill to Paid and changes no
\* other field of any bill, no item and no log entry; and what "Generate
\* Bill", "Update Bill", "Delete" and "Reset All Transactions" do to the
\* inventory is what they would do were every bill Paid, or every bill Unpaid.
C20_MarkPaid ==
    [][/\ \A s \in Sessions, b \in BillIds :
              MarkPaid(s, b) =>
                  /\ DOMAIN bills' = DOMAIN bills
                  /\ \A x \in DOMAIN bills \ {b} : bills'[x] = bills[x]
                  /\ bills'[b] = [bills[b] EXCEPT !.payment_status = "Paid"]
                  /\ UNCHANGED <<inventory, inventory_log, bill_count, bill_to_edit>>
       /\ \A st \in PaymentStatuses :
              /\ \A s \in Sessions :
                     ResetAllStock(s, ResetConfirmation) =>
                         inventory' = ReleaseAll(inventory, WithStatus(bills, st),
                                                 DOMAIN bills)
              /\ \A s \in Sessions, b \in BillIds :
                     DeleteBill(s, b) =>
                         inventory' = ReleaseStock(inventory,
                                                   WithStatus(bills, st)[b].items)
              /\ \A b \in DOMAIN bills' \ DOMAIN bills :
                     inventory' = SellStock(inventory, WithStatus(bills', st)[b].items)
              /\ \A s \in Sessions :
                     (bill_to_edit[s] # << >> /\ bill_to_edit'[s] = << >>) =>
                         LET original == WithStatus(<<bill_to_edit[s][1]>>, st)[1]
                         IN  inventory' =
                                 EditStock(inventory, original.items,
                                     WithStatus(bills', st)[original.bill_id].items)]_vars

\* A bill generated unpaid has been marked paid, its units still off the stock.
C20_Witness ==
    \E b \in BillIds :
        /\ bills[b].payment_mode = "Cash"
        /\ bills[b].payment_status = "Paid"
        /\ bills[b].last_edited_by = Absent
        /\ \E i \in ItemIds :
               /\ LineQty(bills[b].items, i) > 0
               /\ inventory[i].quantity = given[i] + applied[i] - BillQty(bills, i)

\* C26: every line of a bill that "Generate Bill" stores has at most the
\* quantity its item had on hand, every line that "Update Bill" stores at most
\* that plus what the bill loaded into the editor holds of the item; after
\* either, every item on the stored bill has a quantity of 0 or more, and no
\* other item has less than before.
C26_WithinStock ==
    [][/\ \A b \in DOMAIN bills' \ DOMAIN bills :
              /\ \A k \in 1 .. Len(bills'[b].items) :
                     LET line == bills'[b].items[k]
                     IN  /\ line.quantity <= inventory[line.item_id].quantity
                         /\ inventory'[line.item_id].quantity >= 0
              /\ \A i \in ItemIds :
                     LineQty(bills'[b].items, i) = 0 =>
                         inventory'[i].quantity >= inventory[i].quantity
       /\ \A s \in Sessions :
              (bill_to_edit[s] # << >> /\ bill_to_edit'[s] = << >>) =>
                  LET b == bill_to_edit[s][1].bill_id
                  IN  /\ \A k \in 1 .. Len(bills'[b].items) :
                             LET line == bills'[b].items[k]
                             IN  /\ line.quantity
                                        <= inventory[line.item_id].quantity
                                             + LineQty(bill_to_edit[s][1].items,
                                                       line.item_id)
                                 /\ inventory'[line.item_id].quantity >= 0
                      /\ \A i \in ItemIds :
                             LineQty(bills'[b].items, i) = 0 =>
                                 inventory'[i].quantity >= inventory[i].quantity]_vars

\* A bill was edited to hold of an item all that was on hand and all that the
\* bill held before, and the item is at 0.
C26_Witness ==
    /\ edited # << >>
    /\ edited[1].original.bill_id \in BillIds
    /\ \E i \in ItemIds :
           /\ LineQty(edited[1].original.items, i) >= 1
           /\ LineQty(edited[1].items, i) > LineQty(edited[1].original.items, i)
           /\ bills[edited[1].original.bill_id].items = edited[1].items
           /\ inventory[i].quantity = 0

\* The sum of purchase_cost_change over the log entries of item i.
LogCost(log, i) ==
    SumSeq([k \in 1 .. Len(log) |->
               IF log[k].item_id = i THEN log[k].purchase_cost_change ELSE 0])

\* C29 as stated, for the shop in which no bill was ever generated and every
\* quantity change of the item was logged: the log's purchase_cost_change of
\* an item add up to its purchase price times its quantity.
C29_Stated ==
    bill_count = 0 =>
        \A i \in ItemIds :
            unlogged[i] = 0 =>
                LogCost(inventory_log, i)
                    = inventory[i].purchase_price * inventory[i].quantity

\* The Bill Deletion Reversal entries that the log holds for item i of bill b.
ReversalsOf(log, b, i) ==
    {k \in 1 .. Len(log) :
        /\ log[k].reason = BillDeletionReversal
        /\ log[k].bill_id = b
        /\ log[k].item_id = i}

\* No "Update Bill" has written anything, and none is pending.
NoEdits == edited = << >> /\ \A s \in Sessions : bill_to_edit[s] = << >>

\* C27 as stated: the log holds at most one Bill Deletion Reversal entry for a
\* line of a bill; and, as long as no bill was edited, an item never has more
\* than it was added with and its updates gave it, which is what it has when
\* every line taken off it has been given back once.
C27_Stated ==
    /\ \A b \in 1 .. bill_count : \A i \in ItemIds :
           Cardinality(ReversalsOf(inventory_log, b, i)) <= 1
    /\ NoEdits => \A i \in ItemIds : inventory[i].quantity <= given[i] + applied[i]

\* C28 as stated: a submission of "Update Bill" whose bill is no longer stored
\* goes on to no $inc of any item.
C28_Stated ==
    [][\A s \in Sessions :
        (/\ pc[s] = "idle"
         /\ pc'[s] \in {"edit_inc", "edit_set"}
         /\ bill_to_edit[s] # << >>
         /\ bill_to_edit[s][1].bill_id \notin DOMAIN bills) =>
            pc'[s] = "edit_set" /\ local'[s].todo = << >>]_vars

\* C23 as stated: a guarded page is shown only when the session holds a
\* passphrase entered correctly, and a run that comes to a guarded page from
\* a page that is not guarded shows the prompt.
C23_Stated ==
    [][\A s \in Sessions :
        /\ Render(session'[s]) \in ProtectedPages =>
               session'[s].password_correct = "True"
        /\ (/\ session[s].logged_in
            /\ session[s].page \notin ProtectedPages
            /\ session'[s].logged_in
            /\ session'[s].page \in ProtectedPages) =>
               Render(session'[s]) = PasswordPrompt]_vars

\* The nine pages of the application.
AllPages ==
    {"Inventory Management", "Billing System", "View Bills", "Analyze Profit",
     "Inventory History", "Daily Report", "IAM", "Log Book", "Settings"}

\* The pages of a role, as the roles are described.
PagesOfRole(role) ==
    IF role = "Biller" THEN {"Billing System", "View Bills"}
    ELSE IF role = "Co-Admin" THEN AllPages \ {"IAM", "Log Book"}
    ELSE AllPages

\* C24: the page of a logged-in session is one of the pages of the role the
\* session holds, and what the run shows is that page or, in its place, the
\* passphrase prompt.
C24_PagesOfRole ==
    \A s \in Sessions :
        session[s].logged_in =>
            /\ session[s].role \in RoleOptions
            /\ session[s].page \in PagesOfRole(session[s].role)
            /\ Render(session[s]) \in {session[s].page, PasswordPrompt}

\* A Biller pressed "Edit" and is shown the Billing System page.
C24_Witness ==
    \E s \in Sessions :
        /\ session[s].logged_in
        /\ session[s].role = "Biller"
        /\ bill_to_edit[s] # << >>
        /\ Render(session[s]) = "Billing System"

\* No two user documents have the same username.
UniqueUsernames(all_users) ==
    \A j, k \in 1 .. Len(all_users) :
        all_users[j].username = all_users[k].username => j = k

\* C25: a run of "Add User" that writes to the user store was given a
\* username no user had and a password of 6 characters or more; a run of
\* "Update User" that writes was given the username selected or one no user
\* had, and no password or one of 6 characters or more; and after every run
\* the usernames are unique.
C25_RejectedUser ==
    [][/\ users' # users =>
              /\ \A s \in DeskSessions, new_username \in UsernameInputs :
                 \A new_name \in FullNameInputs, new_email \in EmailInputs :
                 \A new_password \in PasswordInputs, new_role \in RoleOptions :
                     AddUser(s, new_username, new_name, new_email, new_password, new_role) =>
                         /\ new_username \notin UsernamesOf(users)
                         /\ Len(new_password) >= 6
              /\ \A s \in DeskSessions, user_to_update \in UsernamesOf(users) :
                 \A new_username \in UsernameInputs, new_role \in RoleOptions :
                 \A new_password \in PasswordInputs :
                     UpdateUser(s, user_to_update, new_username,
                                users[FindOne(users, user_to_update)].name,
                                users[FindOne(users, user_to_update)].email,
                                new_role, new_password) =>
                         /\ new_username \notin UsernamesOf(users) \ {user_to_update}
                         /\ new_password = "" \/ Len(new_password) >= 6
       /\ UniqueUsernames(users')]_vars

\* "Update User" was refused a username that another user has, and the store
\* holds both users as they were.
C25_Witness ==
    /\ notice = NewUsernameExists
    /\ Len(users) = 2
    /\ UniqueUsernames(users)
    /\ \E k \in 1 .. Len(users) : users[k].username = "bob"

\* C30 as stated: the user store holds the account that initial_setup
\* inserted first, or at least an account of the username 'admin'.
C30_Stated ==
    \E k \in 1 .. Len(users) : users[k].id = 1 \/ users[k].username = DefaultAdmin

\* The business day of a timestamp, by the minute of the day: the calendar
\* date, or the date before it for a time before 06:00.
DayOf(timestamp) ==
    IF 60 * timestamp.hour + timestamp.minute < 6 * 60
    THEN timestamp.date - 1 ELSE timestamp.date

\* The sum of a column over the bills of one payment status and business day.
BillsTotal(all_bills, stamps, status, day, column) ==
    SumSeq([k \in 1 .. Len(SetToSeq(DOMAIN all_bills)) |->
               LET b == SetToSeq(DOMAIN all_bills)[k]
               IN  IF all_bills[b].payment_status = status /\ DayOf(stamps[b]) = day
                   THEN all_bills[b][column] ELSE 0])

\* The business days of the timestamps there are.
Days == {DayOf(Moments[k]) : k \in 1 .. Len(Moments)}

\* C21 as stated: get_business_date gives 05:30 and 05:59 of a date to the
\* date before and 06:00 and 06:01 to the date itself, as it gives every time
\* before 06:00 and every time from 06:00 on; and a profit report, of either
\* Analyze Profit page, has a row of paid sales for exactly the business days
\* of the paid bills, holding the bills of that business day, and a row of
\* purchases for exactly the business days of the log entries, holding the
\* entries of that business day.
C21_Stated ==
    [][/\ GetBusinessDate(Timestamp(2, 5, 30)) = 1
       /\ GetBusinessDate(Timestamp(2, 5, 59)) = 1
       /\ GetBusinessDate(Timestamp(2, 6, 0)) = 2
       /\ GetBusinessDate(Timestamp(2, 6, 1)) = 2
       /\ \A k \in 1 .. Len(Moments) : GetBusinessDate(Moments[k]) = DayOf(Moments[k])
       /\ ((\E s \in Sessions : AnalyzeProfitPage(s)) \/ AnalyzeProfitPagePhase1) =>
              /\ DOMAIN report'.daily_sales =
                     {DayOf(bill_timestamp[b]) :
                         b \in {x \in DOMAIN bills : bills[x].payment_status = "Paid"}}
              /\ \A d \in DOMAIN report'.daily_sales :
                     /\ report'.daily_sales[d]
                            = BillsTotal(bills, bill_timestamp, "Paid", d, "total_sell_price")
                     /\ report'.daily_profit[d]
                            = BillsTotal(bills, bill_timestamp, "Paid", d, "profit")
              /\ DOMAIN report'.daily_purchases =
                     {DayOf(log_timestamp[k]) : k \in 1 .. Len(inventory_log)}
              /\ \A d \in DOMAIN report'.daily_purchases :
                     report'.daily_purchases[d] =
                         SumSeq([k \in 1 .. Len(inventory_log) |->
                                    IF DayOf(log_timestamp[k]) = d
                                    THEN inventory_log[k].purchase_cost_change
                                    ELSE 0])]_vars

\* C22: the report's realized profit and sales of a business day are the
\* sums over the bills that are Paid and of that day, with a row for a day
\* exactly when it has such a bill; the outstanding revenue is the sum of
\* total_sell_price over the bills that are Unpaid; showing the report writes
\* to no collection; and "Mark Paid" takes the bill's total_sell_price out of
\* the outstanding revenue and puts it, and the bill's profit, into the rows
\* of the bill's business day.
C22_PaidAndUnpaid ==
    [][/\ (\E s \in Sessions : AnalyzeProfitPage(s)) =>
              /\ report'.total_outstanding =
                     SumSeq([k \in 1 .. Len(SetToSeq(DOMAIN bills)) |->
                                LET b == SetToSeq(DOMAIN bills)[k]
                                IN  IF bills[b].payment_status = "Unpaid"
                                    THEN bills[b].total_sell_price ELSE 0])
              /\ \A d \in Days :
                     IF \E b \in DOMAIN bills :
                            bills[b].payment_status = "Paid" /\ DayOf(bill_timestamp[b]) = d
                     THEN /\ d \in DOMAIN report'.daily_profit
                          /\ d \in DOMAIN report'.daily_sales
                          /\ report'.daily_profit[d]
                                 = BillsTotal(bills, bill_timestamp, "Paid", d, "profit")
                          /\ report'.daily_sales[d]
                                 = BillsTotal(bills, bill_timestamp, "Paid", d,
                                              "total_sell_price")
                     ELSE /\ d \notin DOMAIN report'.daily_profit
                          /\ d \notin DOMAIN report'.daily_sales
              /\ UNCHANGED <<inventory, bills, inventory_log, users, bill_timestamp,
                             log_timestamp>>
       /\ \A s \in Sessions, b \in BillIds :
              MarkPaid(s, b) =>
                  LET before == AnalyzeProfit(bills, bill_timestamp, inventory_log,
                                              log_timestamp)
                      after == AnalyzeProfit(bills', bill_timestamp', inventory_log',
                                             log_timestamp')
                      d == DayOf(bill_timestamp[b])
                      Row(row) == IF d \in DOMAIN row THEN row[d] ELSE 0
                  IN  /\ after.total_outstanding
                             = before.total_outstanding - bills[b].total_sell_price
                      /\ d \in DOMAIN after.daily_sales
                      /\ after.daily_sales[d]
                             = Row(before.daily_sales) + bills[b].total_sell_price
                      /\ after.daily_profit[d]
                             = Row(before.daily_profit) + bills[b].profit]_vars

\* The report shown is of the present store, in which a bill generated
\* unpaid on day 2 was marked paid: its row is there, next to the row of the
\* stocked bill, and nothing is outstanding.
C22_Witness ==
    /\ report.available
    /\ report = AnalyzeProfit(bills, bill_timestamp, inventory_log, log_timestamp)
    /\ \E b \in BillIds :
           /\ bills[b].payment_mode = "Cash"
           /\ bills[b].payment_status = "Paid"
           /\ bills[b].total_sell_price > 0
           /\ DayOf(bill_timestamp[b]) = 2
           /\ report.daily_sales[2] = bills[b].total_sell_price
    /\ DOMAIN report.daily_profit = {1, 2}
    /\ report.total_outstanding = 0

====
